---- MODULE Spec2Model ----
(***************************************************************************)
(* Model of the Rick and Morty sync backend: the upstream client           *)
(* (app/rick_morty_client.py: circuit breaker, retry policy, transport,    *)
(* pagination crawl) and the sync orchestrator (app/services.py).          *)
(*                                                                         *)
(* The process is one asyncio event loop: a task runs without interruption *)
(* from one await that suspends it to the next, so every action below is   *)
(* the code between two suspension points of one task.                     *)
(***************************************************************************)
EXTENDS Integers, Sequences, FiniteSets, TLC

VARIABLES
    now,        \* time.monotonic(), in whole seconds
    cb,         \* the CircuitBreaker instance decorating _make_request
    task,       \* the running coroutines, one record per task
    hist,       \* observations of the breaker's logical calls (history variable)
    db,         \* the committed rows of table "characters"
    cache       \* the Redis entries under the cache prefix

vars == <<now, cb, task, hist, db, cache>>

-----------------------------------------------------------------------------
(* Bounds of the model *)

MaxTime == 62
MaxFailures == 7
MaxPage == 2
MaxId == 2
MaxRows == 5
MaxListPage == 3

Tasks == {"t1", "t2"}

-----------------------------------------------------------------------------
(* Program constants *)

FAILURE_THRESHOLD == 5
RECOVERY_TIMEOUT == 30
StopAfterAttempt == 3
WaitMultiplier == 1
WaitMin == 4
WaitMax == 10
MaxPerPage == 100
RateLimitSleep == 60

-----------------------------------------------------------------------------
(* Exceptions.  Every class below derives from Exception. *)

NoExc == "none"

TransportExceptions == {"RequestError", "HTTPStatusError"}

Statuses == {"ok", "bad_json", "http_500", "http_429", "network"}

\* What client.get / raise_for_status / response.json raise for a response.
TransportRaises(status) ==
    CASE status = "network" -> "RequestError"
      [] status \in {"http_500", "http_429"} -> "HTTPStatusError"
      [] status = "bad_json" -> "JSONDecodeError"
      [] OTHER -> NoExc

\* The except clauses of _make_request: both httpx errors leave the body as
\* RickMortyAPIError; anything else leaves it unchanged.
BodyRaises(status) ==
    IF TransportRaises(status) \in TransportExceptions
    THEN "RickMortyAPIError"
    ELSE TransportRaises(status)

SleepsOnServerError(status) == status = "http_500"

\* The body sleeps before raising only for status code 429.
BodySleeps(status) == status = "http_429"

-----------------------------------------------------------------------------
(* tenacity: @retry(stop_after_attempt(3), wait_exponential(1, 4, 10),      *)
(*                  retry_if_exception_type((RequestError, HTTPStatusError)))*)

Pow2(n) == IF n <= 0 THEN 1 ELSE IF n = 1 THEN 2 ELSE IF n = 2 THEN 4 ELSE 8

Min2(a, b) == IF a < b THEN a ELSE b
Max2(a, b) == IF a > b THEN a ELSE b

RetryAnyException(exc) == exc # NoExc

RetryIf(exc) == exc \in TransportExceptions

StopNow(attempt) == attempt >= StopAfterAttempt

BackoffWait(attempt) ==
    Max2(WaitMin, Min2(WaitMultiplier * Pow2(attempt - 1), WaitMax))

\* AsyncRetrying.iter after an attempt: "return", "raise" (the attempt's own
\* exception), "retry_error" (attempts exhausted) or "sleep" (try again).
RetryDecision(exc, attempt) ==
    IF ~RetryIf(exc) THEN (IF exc = NoExc THEN "return" ELSE "raise")
    ELSE IF StopNow(attempt) THEN "retry_error"
    ELSE "sleep"

-----------------------------------------------------------------------------
(* circuitbreaker: @circuit(failure_threshold=5, recovery_timeout=30) on a   *)
(* coroutine function (the library's async wrapper, release 2.x): the       *)
(* wrapper raises CircuitBreakerError when `opened`, else awaits the call   *)
(* inside `with self`, whose __exit__ records the outcome.                  *)

CbInit == [state |-> "closed", failures |-> 0, opened |-> 0]

OpenRemaining(b, t) == (b.opened + RECOVERY_TIMEOUT) - t

\* CircuitBreaker.state: an open breaker whose timeout has run out reads
\* half_open; the stored _state stays "open".
CbState(b, t) ==
    IF b.state = "open" /\ OpenRemaining(b, t) <= 0 THEN "half_open" ELSE b.state

\* CircuitBreaker.opened: the only test the wrapper makes before a call.
Opened(b, t) == CbState(b, t) = "open"

CallFailedTwice(b, t) ==
    IF b.failures + 2 >= FAILURE_THRESHOLD
    THEN [state |-> "open", failures |-> b.failures + 2, opened |-> t]
    ELSE [b EXCEPT !.failures = b.failures + 2]

CallFailedFromStaleCount(b, t) == [b EXCEPT !.failures = 1]

SucceededKeepsCount(b) == [b EXCEPT !.state = "closed"]

\* __call_succeeded
CallSucceeded(b) == [b EXCEPT !.state = "closed", !.failures = 0]

\* __call_failed
CallFailed(b, t) ==
    IF b.failures + 1 >= FAILURE_THRESHOLD
    THEN [state |-> "open", failures |-> b.failures + 1, opened |-> t]
    ELSE [b EXCEPT !.failures = b.failures + 1]

\* CircuitBreaker.__exit__: one outcome per decorated call.
CbExit(b, exc, t) == IF exc # NoExc THEN CallFailed(b, t) ELSE CallSucceeded(b)

-----------------------------------------------------------------------------
(* Upstream payloads *)

Earth == <<"E", "a", "r", "t", "h">>
EarthC137 == Earth \o <<" ", "(", "C", "-", "1", "3", "7", ")">>
EARTH == <<"E", "A", "R", "T", "H">>
Mars == <<"M", "a", "r", "s">>
EarthWord == <<"e", "a", "r", "t", "h">>

\* origin: "named" ({"name": ...}), "null" (origin: null), "missing" (no origin
\* key), "null_name" ({"name": null}).
Origin(kind, name) == [kind |-> kind, name |-> name]

\* A raw character object; ok tells whether CharacterResponse(**char_data)
\* validates (every required field present and well typed).
Raw(id, name, origin, ok) == [id |-> id, name |-> name, origin |-> origin, ok |-> ok]

\* info.next: "null" (no link), "page" (a URL with page=<page>), "garbage" (a
\* page parameter that is no integer), "no_param" (a URL without page),
\* "null_info" (info itself is null).
Link(kind, page) == [kind |-> kind, page |-> page]
NoLink == Link("null", 0)

Response(status, results, next) == [status |-> status, results |-> results, next |-> next]

NoResponse == Response("none", <<>>, NoLink)

-----------------------------------------------------------------------------
(* _filter_earth_characters *)

LowerChar(c) ==
    CASE c = "E" -> "e" [] c = "A" -> "a" [] c = "R" -> "r" [] c = "T" -> "t"
      [] c = "H" -> "h" [] c = "M" -> "m" [] c = "C" -> "c" [] c = "D" -> "d"
      [] c = "S" -> "s" [] OTHER -> c

Lower(s) == [i \in 1..Len(s) |-> LowerChar(s[i])]

\* sub in s
Contains(s, sub) ==
    \E i \in 0..(Len(s) - Len(sub)) : \A j \in 1..Len(sub) : s[i + j] = sub[j]

\* char_data.get("origin", {}).get("name", "").lower() raises AttributeError
\* when origin or its name is null.
OriginRaises(item) == item.origin.kind \in {"null", "null_name"}

OriginName(item) == IF item.origin.kind = "named" THEN Lower(item.origin.name) ELSE <<>>

IsEarthCaseSensitive(item) == Contains(item.origin.name, EarthWord)

\* "earth" in origin_name
IsEarth(item) == Contains(OriginName(item), EarthWord)

\* CharacterResponse(**char_data), reduced to the fields the sync stores.
Parsed(item) == [id |-> item.id, name |-> item.name, origin |-> item.origin.name]

RECURSIVE FilterEarthReversed(_)
FilterEarthReversed(items) ==
    IF items = <<>> THEN <<>>
    ELSE LET item == Head(items)
             rest == FilterEarthReversed(Tail(items))
         IN IF IsEarth(item) /\ item.ok THEN rest \o <<Parsed(item)>> ELSE rest

RECURSIVE FilterEarth(_)
FilterEarth(items) ==
    IF items = <<>> THEN <<>>
    ELSE LET item == Head(items)
             rest == FilterEarth(Tail(items))
         IN IF IsEarth(item) /\ item.ok THEN <<Parsed(item)>> \o rest ELSE rest

\* The loop stops at the first item whose origin lookup raises.
FilterRaises(items) == \E i \in 1..Len(items) : OriginRaises(items[i])

-----------------------------------------------------------------------------
(* _extract_next_page_number; Python's None is 0 here (both are falsy at the *)
(* call site).                                                               *)

ExtractRaises(next) == next.kind = "null_info"

AcceptsEqualPage(next, current_page) ==
    CASE next.kind = "page" -> IF next.page < current_page THEN 0 ELSE next.page
      [] OTHER -> 0

ExtractNextPageNumber(next, current_page) ==
    CASE next.kind \in {"null", "garbage"} -> 0
      [] next.kind = "no_param" -> 0
      [] next.kind = "page" -> IF next.page <= current_page THEN 0 ELSE next.page
      [] OTHER -> 0

-----------------------------------------------------------------------------
(* Tasks *)

TaskIdle ==
    [op |-> "none", pc |-> "idle",
     attempt |-> 0,          \* HTTP requests sent by the current logical call
     wake |-> 0,             \* when the current sleep ends
     admitted |-> "none",    \* CircuitBreaker.state read by the wrapper
     inWindow |-> FALSE,     \* history: the call began inside the recovery window
     outcome |-> "idle",     \* how the last _make_request call ended
     status |-> "none",      \* the last HTTP response's status
     last |-> NoResponse,    \* the last page the crawl received
     ret |-> "none", raised |-> NoExc,
     page |-> 0, all |-> <<>>, requested |-> <<>>, stopped |-> "none",
     idx |-> 0,              \* position of the sync loop in api_characters
     synced |-> 0,           \* synced_count
     count |-> 0,            \* the count sync returned
     writes |-> <<>>,        \* the session's uncommitted inserts and updates
     skipped |-> {},         \* history: positions whose processing raised
     applied |-> <<>>,       \* history: the writes the last commit made
     fault |-> FALSE,        \* history: the database failed the commit
     key |-> "none",         \* cache_key of a read
     result |-> [rows |-> <<>>, total |-> -1],   \* what a read returns
     hit |-> FALSE,          \* history: the read was served from the cache
     args |-> [page |-> 1, per_page |-> 20, sort_by |-> "id", sort_order |-> "asc",
               character_id |-> 1],              \* the arguments of a read
     route |-> "none",       \* the endpoint that called the read
     http |-> 0,             \* the status code the endpoint answered
     overall |-> "none",     \* overall_status of /healthcheck
     checks |-> [database |-> "none", cache |-> "none",
                 rick_morty_api |-> "none", data |-> "none"],
                             \* the status of each entry of /healthcheck's checks
     block |-> [total_pages |-> -1, has_next |-> FALSE, has_prev |-> FALSE]]
                             \* the "pagination" object of the answer

InFlight == {"http", "sleep429", "backoff"}

\* consec: the logical calls that failed since the last one that succeeded;
\* cut: that success ended a run of FAILURE_THRESHOLD - 1 failures.
HistInit == [consec |-> 0, since |-> 0, tripped |-> FALSE, cut |-> FALSE]

\* The recovery window as an observer measures it: the breaker opened at
\* h.since, when the last FAILURE_THRESHOLD logical calls to finish had all
\* failed (or when a call admitted after an earlier window failed), and fewer
\* than RECOVERY_TIMEOUT seconds have passed since.
InWindow(h, t) == h.tripped /\ t < h.since + RECOVERY_TIMEOUT

HistAfter(h, exc, t) ==
    IF exc = NoExc
    THEN [h EXCEPT !.consec = 0, !.cut = (h.consec = FAILURE_THRESHOLD - 1)]
    ELSE IF h.consec + 1 >= FAILURE_THRESHOLD /\ ~InWindow(h, t)
    THEN [consec |-> h.consec + 1, since |-> t, tripped |-> TRUE, cut |-> h.cut]
    ELSE [h EXCEPT !.consec = h.consec + 1]

-----------------------------------------------------------------------------
(* The store: table "characters" and one AsyncSession per sync *)

NewRowWithoutName(item) == [id |-> item.id, name |-> "", origin |-> item.origin]

\* Character(id=..., name=..., origin_name=...)
NewRow(item) == [id |-> item.id, name |-> item.name, origin |-> item.origin]

UpdateKeepsName(existing, item) == [existing EXCEPT !.origin = item.origin]

\* existing_char.name = api_char.name, ... on the row already stored
UpdatedRow(existing, item) == [existing EXCEPT !.name = item.name, !.origin = item.origin]

Insert(row) == [kind |-> "insert", row |-> row]
Update(row) == [kind |-> "update", row |-> row]

IdsOf(rows) == {rows[i].id : i \in 1..Len(rows)}

\* The position of the row with this id; 0 when there is none.
Find(rows, id) ==
    IF id \in IdsOf(rows) THEN CHOOSE i \in 1..Len(rows) : rows[i].id = id ELSE 0

ApplyReplaces(rows, writes) == [k \in 1..Len(writes) |-> writes[k].row]

\* The table after the writes, in order: INSERT adds a row, UPDATE rewrites the
\* row of that id where it is.
RECURSIVE Apply(_, _)
Apply(rows, writes) ==
    IF writes = <<>> THEN rows
    ELSE LET w == Head(writes)
             i == Find(rows, w.row.id)
         IN Apply(IF w.kind = "insert" \/ i = 0
                  THEN Append(rows, w.row)
                  ELSE [rows EXCEPT ![i] = w.row],
                  Tail(writes))

\* id is the primary key: an INSERT of an id the table holds is rejected.
RECURSIVE PkViolated(_, _)
PkViolated(rows, writes) ==
    IF writes = <<>> THEN FALSE
    ELSE LET w == Head(writes)
         IN \/ w.kind = "insert" /\ w.row.id \in IdsOf(rows)
            \/ PkViolated(Apply(rows, <<w>>), Tail(writes))

\* select(Character).where(Character.id == id) in a session: the committed
\* table with the session's own writes flushed over it.
SessionView(rows, writes) == Apply(rows, writes)

Existing(rows, writes, id) == Find(SessionView(rows, writes), id)

\* One pass of the for loop once the select has answered.
Upsert(rows, writes, item) ==
    LET view == SessionView(rows, writes)
        i == Existing(rows, writes, item.id)
    IN IF i # 0
       THEN Append(writes, Update(UpdatedRow(view[i], item)))
       ELSE Append(writes, Insert(NewRow(item)))

-----------------------------------------------------------------------------
(* The cache (app/cache.py) and the reads of app/services.py.  A read's      *)
(* answer is a view: the rows it returns and the total it reports.           *)

\* The arguments of a read: those of get_characters, and the id of
\* get_character_by_id.
Args(page, per_page, sort_by, sort_order, character_id) ==
    [page |-> page, per_page |-> per_page, sort_by |-> sort_by,
     sort_order |-> sort_order, character_id |-> character_id]

\* The defaults of get_characters, and character 1.
DefaultArgs == Args(1, 20, "id", "asc", 1)

\* The arguments the reads are called with: pages of two records and one
\* page of all; the three sort fields and another, both ways, and two more
\* spellings of the order.
PageSizes == {<<p, 2>> : p \in 1..MaxListPage} \cup {<<1, MaxPerPage>>}
SortOrders ==
    ({"id", "name", "created_at", "species"} \X {"asc", "desc"})
        \cup {<<"name", "DESC">>, <<"name", "up">>}
ServiceArgs ==
    {Args(ps[1], ps[2], so[1], so[2], 1) : ps \in PageSizes, so \in SortOrders}
IdArgs == {[DefaultArgs EXCEPT !.character_id = i] : i \in 1..MaxId}

\* f"characters:page:{page}:per_page:{per_page}:sort:{sort_by}:{sort_order}"
ListingKeyOf(a) ==
    "characters:page:" \o ToString(a.page) \o ":per_page:" \o ToString(a.per_page)
        \o ":sort:" \o a.sort_by \o ":" \o a.sort_order

\* f"character:{character_id}"
CharacterKeyOf(a) == "character:" \o ToString(a.character_id)

\* "characters:page:1:per_page:20:sort:id:asc" and "character:1"
ListingKey == ListingKeyOf(DefaultArgs)
CharacterKey == CharacterKeyOf(DefaultArgs)
StatsKey == "character_stats"

CacheKeys == {ListingKey, CharacterKey, StatsKey}

ListingKeys == {ListingKeyOf(a) : a \in ServiceArgs \cup {DefaultArgs}}
CharacterKeys == {CharacterKeyOf(a) : a \in IdArgs}

\* The characters of a key up to the first that tells the three kinds of key
\* apart from the pattern's prefix.
KeyChars(key) ==
    CASE key \in ListingKeys ->
            <<"c", "h", "a", "r", "a", "c", "t", "e", "r", "s", ":", "p", "a", "g", "e">>
      [] key \in CharacterKeys ->
            <<"c", "h", "a", "r", "a", "c", "t", "e", "r", ":">>
      [] key = StatsKey ->
            <<"c", "h", "a", "r", "a", "c", "t", "e", "r", "_", "s", "t", "a", "t", "s">>
      [] OTHER -> <<>>

\* The pattern "characters:*" up to its star.
ListingPrefix == <<"c", "h", "a", "r", "a", "c", "t", "e", "r", "s", ":">>

MatchesDefaultListing(key) == key = ListingKey

\* Redis KEYS "characters:*": the keys that begin with the pattern's prefix.
MatchesListing(key) ==
    /\ Len(KeyChars(key)) >= Len(ListingPrefix)
    /\ SubSeq(KeyChars(key), 1, Len(ListingPrefix)) = ListingPrefix

ReadOps == {"get_characters", "get_character_by_id", "get_stats"}

CacheKeyFor(op, a) ==
    CASE op = "get_characters" -> ListingKeyOf(a)
      [] op = "get_character_by_id" -> CharacterKeyOf(a)
      [] OTHER -> StatsKey

CacheKey(op) == CacheKeyFor(op, DefaultArgs)

View(rows, total) == [rows |-> rows, total |-> total]

\* Python's None as a read's answer.
NoView == View(<<>>, -1)

\* The names of the stored characters in the order the database collates
\* them.
CollationOrder ==
    <<"Alice", "Bob">> \o [i \in 1..MaxRows |-> "Character " \o ToString(i)]
        \o <<"Charlie", "Rick Sanchez", "Rick Sanchez Updated">>

Collate(name) == CHOOSE i \in 1..Len(CollationOrder) : CollationOrder[i] = name

\* if sort_by == "name" ... elif sort_by == "created_at" ... else Character.id
OrderColumn(sort_by) == IF sort_by \in {"name", "created_at"} THEN sort_by ELSE "id"

\* The value ORDER BY compares.
SortValue(row, column) ==
    CASE column = "name" -> Collate(row.name)
      [] column = "created_at" -> row.created_at
      [] OTHER -> row.id

Spell(word) ==
    CASE word = "asc" -> <<"a", "s", "c">>
      [] word = "desc" -> <<"d", "e", "s", "c">>
      [] word = "DESC" -> <<"D", "E", "S", "C">>
      [] OTHER -> <<"u", "p">>

NeverDesc(sort_order) == FALSE

\* sort_order.lower() == "desc"
IsDesc(sort_order) == Lower(Spell(sort_order)) = <<"d", "e", "s", "c">>

\* ORDER BY lets row r come before row s.
MayPrecede(r, s, column, descending) ==
    IF descending
    THEN SortValue(r, column) >= SortValue(s, column)
    ELSE SortValue(r, column) <= SortValue(s, column)

Without(rows, m) == SubSeq(rows, 1, m - 1) \o SubSeq(rows, m + 1, Len(rows))

\* The orders in which SELECT ... ORDER BY column may return the rows: rows
\* of equal value come in an order the database chooses.
RECURSIVE Ordered(_, _, _)
Ordered(rows, column, descending) ==
    IF rows = <<>> THEN {<<>>}
    ELSE UNION {{<<rows[m]>> \o rest : rest \in Ordered(Without(rows, m), column, descending)} :
                m \in {i \in 1..Len(rows) :
                         \A j \in 1..Len(rows) : MayPrecede(rows[i], rows[j], column, descending)}}

OffsetOfNextPage(page, per_page) == page * per_page

\* offset = (page - 1) * per_page
Offset(page, per_page) == (page - 1) * per_page

\* .offset(offset).limit(per_page)
Slice(rows, offset, limit) ==
    IF offset >= Len(rows) THEN <<>>
    ELSE SubSeq(rows, offset + 1, Min2(offset + limit, Len(rows)))

\* What each read may compute from the table.
ViewsFor(op, a, rows) ==
    CASE op = "get_characters" ->
            {View(Slice(sorted, Offset(a.page, a.per_page), a.per_page), Len(rows)) :
                sorted \in Ordered(rows, OrderColumn(a.sort_by), IsDesc(a.sort_order))}
      [] op = "get_character_by_id" ->
            {IF Find(rows, a.character_id) = 0 THEN NoView
             ELSE View(<<rows[Find(rows, a.character_id)]>>, 1)}
      [] OTHER -> {View(<<>>, Len(rows))}

\* What the reads of page 1, per_page 20, sort id asc, of character 1 and of
\* the statistics compute from the table.
ViewOf(op, rows) == CHOOSE view \in ViewsFor(op, DefaultArgs, rows) : TRUE

\* A Redis entry.  form: "ok" (a value this code wrote), "undecodable"
\* (bytes neither json.loads nor pickle.loads accepts), "misshapen" (a value
\* that decodes but is not of the shape the read wrote, left by another
\* writer of the same Redis).
Entry(key, form, view) == [key |-> key, form |-> form, view |-> view]

NoEntry == Entry("none", "none", NoView)

Lookup(c, key) ==
    IF \E e \in c : e.key = key THEN CHOOSE e \in c : e.key = key ELSE NoEntry

\* CacheManager.get: None when the cache is down, the backend raises, the
\* key is absent or the value cannot be decoded; else the decoded value.
CacheGetResult(c, key, ok) ==
    IF ~ok \/ Lookup(c, key).form = "undecodable" THEN NoEntry ELSE Lookup(c, key)

\* CacheManager.set once Redis has answered setex.
Store(c, key, view) == {e \in c : e.key # key} \cup {Entry(key, "ok", view)}

\* What the code after cache.get raises for a value that is there: nothing
\* for a value this code wrote; for another value the unpacking and
\* FilteredCharacterResponse(**...) raise, while get_stats returns it as is.
UseRaises(op, entry) ==
    IF entry.form = "misshapen" /\ op # "get_stats" THEN "ValidationError" ELSE NoExc

-----------------------------------------------------------------------------
(* The callers of _make_request *)

\* The service computes its cache key and suspends in cache.get.
ServiceCall(rec, op, a) ==
    [rec EXCEPT !.op = op, !.pc = "cache_get", !.args = a, !.key = CacheKeyFor(op, a)]

HealthRoute == "GET /healthcheck"

AlwaysDegraded(overall) == "degraded"

\* overall_status = "degraded" if overall_status == "healthy" else "unhealthy"
Worse(overall) == IF overall = "healthy" THEN "degraded" ELSE "unhealthy"

\* /healthcheck records a check's status; a failed database check makes the
\* overall status unhealthy, another failed check makes it one step worse.
AfterCheck(rec, check, status) ==
    [rec EXCEPT !.checks[check] = status,
                !.overall = IF status = "healthy" THEN rec.overall
                            ELSE IF check = "database" THEN "unhealthy"
                            ELSE Worse(rec.overall)]

\* health_check: except Exception around the call.
HealthCheckResume(rec, exc) ==
    [rec EXCEPT !.pc = "done",
                !.ret = IF exc = NoExc THEN "healthy" ELSE "unhealthy"]

\* /healthcheck after rick_morty_client.health_check() returned: the check
\* is recorded and get_stats is called, which suspends in cache.get.
AfterApiCheck(rec) ==
    IF rec.route = HealthRoute
    THEN ServiceCall(AfterCheck(rec, "rick_morty_api", rec.ret), "get_stats", DefaultArgs)
    ELSE rec

\* get_character: except RickMortyAPIError around the call and the parse.
GetCharacterResume(rec, exc, resp) ==
    IF exc = NoExc
    THEN IF resp.results[1].ok
         THEN [rec EXCEPT !.pc = "done", !.ret = "character"]
         ELSE [rec EXCEPT !.pc = "done", !.raised = "ValidationError"]
    ELSE IF exc = "RickMortyAPIError"
    THEN [rec EXCEPT !.pc = "done", !.ret = "None"]
    ELSE [rec EXCEPT !.pc = "done", !.raised = exc]

CatchesOnlyApiError(exc) == exc = "RickMortyAPIError"

CatchesNothing(exc) == FALSE

\* get_all_filtered_characters: except RickMortyAPIError, then except Exception.
CrawlCatches(exc) == exc # NoExc

NeverEmpty(results) == FALSE

\* if not characters: break
PageIsEmpty(results) == results = <<>>

SyncCommitsEmpty(rec) ==
    IF rec.all = <<>>
    THEN [rec EXCEPT !.pc = "commit", !.synced = 0]
    ELSE [rec EXCEPT !.pc = "select", !.idx = 1, !.synced = 0]

\* sync_characters_from_api after the crawl: return 0 for an empty list, else
\* enter the loop, which suspends in its first db.execute.
SyncAfterCrawl(rec) ==
    IF rec.all = <<>>
    THEN [rec EXCEPT !.pc = "done", !.ret = "count", !.count = 0]
    ELSE [rec EXCEPT !.pc = "select", !.idx = 1, !.synced = 0]

CrawlReturn(rec, why) ==
    IF rec.op = "sync"
    THEN SyncAfterCrawl([rec EXCEPT !.stopped = why])
    ELSE [rec EXCEPT !.pc = "done", !.ret = "list", !.stopped = why]

\* One pass of the while loop after get_characters returned or raised, up to
\* the sleep before the next page.
CrawlResume(rec, exc, resp, t) ==
    IF exc # NoExc
    THEN IF CrawlCatches(exc) THEN CrawlReturn(rec, "error")
         ELSE [rec EXCEPT !.pc = "done", !.raised = exc]
    ELSE IF PageIsEmpty(resp.results) THEN CrawlReturn([rec EXCEPT !.last = resp], "empty")
    ELSE IF FilterRaises(resp.results) THEN CrawlReturn([rec EXCEPT !.last = resp], "error")
    ELSE LET got == [rec EXCEPT !.all = rec.all \o FilterEarth(resp.results),
                                !.last = resp]
             n == ExtractNextPageNumber(resp.next, rec.page)
         IN IF ExtractRaises(resp.next) THEN CrawlReturn(got, "error")
            ELSE IF n = 0 THEN CrawlReturn(got, "no_next")
            ELSE [got EXCEPT !.page = n, !.pc = "page_sleep", !.wake = t]

Resume(rec, exc, resp, t) ==
    CASE rec.op = "health_check" -> AfterApiCheck(HealthCheckResume(rec, exc))
      [] rec.op = "get_character" -> GetCharacterResume(rec, exc, resp)
      [] OTHER -> CrawlResume(rec, exc, resp, t)

\* The circuit wrapper: raise CircuitBreakerError when opened, else enter the
\* retrying call, whose first attempt sends the request.
BeginCall(rec, b, h, t) ==
    LET r == [rec EXCEPT !.admitted = CbState(b, t), !.inWindow = InWindow(h, t),
                         !.status = "none",
                         !.requested = IF rec.op \in {"crawl", "sync"}
                                       THEN Append(rec.requested, rec.page)
                                       ELSE rec.requested]
    IN IF Opened(b, t)
       THEN Resume([r EXCEPT !.attempt = 0, !.outcome = "CircuitBreakerError"],
                   "CircuitBreakerError", NoResponse, t)
       ELSE [r EXCEPT !.pc = "http", !.attempt = 1, !.outcome = "pending"]

\* The exception the decorated call ends with, given tenacity's decision.
FinalExc(exc, decision) ==
    CASE decision = "return" -> NoExc
      [] decision = "retry_error" -> "RetryError"
      [] OTHER -> exc

\* An attempt of the body has ended with exc (NoExc: it returned resp).
EndAttempt(t, rec, exc, resp) ==
    LET d == RetryDecision(exc, rec.attempt)
        final == FinalExc(exc, d)
    IN IF d = "sleep"
       THEN /\ task' = [task EXCEPT ![t] = [rec EXCEPT !.pc = "backoff",
                                              !.wake = now + BackoffWait(rec.attempt)]]
            /\ UNCHANGED <<cb, hist>>
       ELSE /\ final # NoExc => cb.failures < MaxFailures
            /\ cb' = CbExit(cb, final, now)
            /\ hist' = HistAfter(hist, final, now)
            /\ task' = [task EXCEPT ![t] =
                   Resume([rec EXCEPT !.outcome = IF final = NoExc THEN "ok" ELSE final],
                          final, resp, now)]

-----------------------------------------------------------------------------
(* Actions *)

Init ==
    /\ now = 0
    /\ cb = CbInit
    /\ task = [t \in Tasks |-> TaskIdle]
    /\ hist = HistInit
    /\ db = <<>>
    /\ cache = {}

\* The instants at which a sleeping task or the open breaker changes what the
\* code does next.
Deadlines ==
    {task[t].wake : t \in {u \in Tasks : task[u].pc \in {"sleep429", "backoff", "page_sleep"}}}
        \cup (IF cb.state = "open" THEN {cb.opened + RECOVERY_TIMEOUT} ELSE {})

\* The clock moves to a deadline or to the second before it.
Tick(n) ==
    /\ n > now
    /\ n <= MaxTime
    /\ now' = n
    /\ UNCHANGED <<cb, task, hist, db, cache>>

\* A request handler or the startup sync begins: the code up to its first
\* suspension, which is the HTTP request of its first _make_request call.
Start(t, op) ==
    /\ task[t].pc \in {"idle", "done"}
    /\ task' = [task EXCEPT ![t] =
           BeginCall([TaskIdle EXCEPT !.op = op,
                                      !.page = IF op \in {"crawl", "sync"} THEN 1 ELSE 0],
                     cb, hist, now)]
    /\ UNCHANGED <<now, cb, hist, db, cache>>

\* client.get returns or raises for the request in flight.
Respond(t, resp) ==
    /\ task[t].pc = "http"
    /\ LET rec == [task[t] EXCEPT !.status = resp.status]
       IN IF BodySleeps(resp.status)
          THEN /\ task' = [task EXCEPT ![t] = [rec EXCEPT !.pc = "sleep429",
                                                 !.wake = now + RateLimitSleep]]
               /\ UNCHANGED <<cb, hist>>
          ELSE EndAttempt(t, rec, BodyRaises(resp.status), resp)
    /\ UNCHANGED <<now, db, cache>>

\* An asyncio.sleep ends: the 429 cooldown, tenacity's backoff, or the crawl's
\* pause between pages.
Wake(t) ==
    /\ task[t].pc \in {"sleep429", "backoff", "page_sleep"}
    /\ now >= task[t].wake
    /\ CASE task[t].pc = "sleep429" ->
              EndAttempt(t, [task[t] EXCEPT !.wake = 0],
                         BodyRaises(task[t].status), NoResponse)
         [] task[t].pc = "backoff" ->
              /\ task' = [task EXCEPT ![t] = [task[t] EXCEPT !.pc = "http", !.wake = 0,
                                                !.attempt = task[t].attempt + 1]]
              /\ UNCHANGED <<cb, hist>>
         [] OTHER ->
              /\ task' = [task EXCEPT ![t] = BeginCall([task[t] EXCEPT !.wake = 0], cb, hist, now)]
              /\ UNCHANGED <<cb, hist>>
    /\ UNCHANGED <<now, db, cache>>

SyncRecordAborts(t, ok) ==
    /\ task[t].pc = "select"
    /\ LET rec == task[t]
           item == rec.all[rec.idx]
           done == [rec EXCEPT !.writes = Upsert(db, rec.writes, item),
                               !.synced = rec.synced + 1,
                               !.idx = rec.idx + 1]
       IN task' = [task EXCEPT ![t] =
              IF ok
              THEN [done EXCEPT !.pc = IF done.idx > Len(rec.all) THEN "commit" ELSE "select"]
              ELSE [rec EXCEPT !.pc = "done", !.writes = <<>>, !.fault = TRUE,
                               !.skipped = rec.skipped \cup {rec.idx},
                               !.raised = "OperationalError"]]
    /\ UNCHANGED <<now, cb, hist, db, cache>>

\* db.execute(select ...) of the sync loop answers (ok) or raises: the record
\* is upserted in the session or skipped, and the loop suspends in the next
\* select or, after the last record, in db.commit.
SyncRecord(t, ok) ==
    /\ task[t].pc = "select"
    /\ LET rec == task[t]
           item == rec.all[rec.idx]
           done == [rec EXCEPT
                      !.writes = IF ok THEN Upsert(db, rec.writes, item) ELSE rec.writes,
                      !.synced = IF ok THEN rec.synced + 1 ELSE rec.synced,
                      !.skipped = IF ok THEN rec.skipped ELSE rec.skipped \cup {rec.idx},
                      !.idx = rec.idx + 1]
       IN task' = [task EXCEPT ![t] =
              [done EXCEPT !.pc = IF done.idx > Len(rec.all) THEN "commit" ELSE "select"]]
    /\ UNCHANGED <<now, cb, hist, db, cache>>

CommitAlwaysClears(t, ok) ==
    /\ task[t].pc = "commit"
    /\ IF ok /\ ~PkViolated(db, task[t].writes)
       THEN /\ db' = Apply(db, task[t].writes)
            /\ task' = [task EXCEPT ![t] = [task[t] EXCEPT !.pc = "clear", !.writes = <<>>,
                                                !.applied = task[t].writes]]
       ELSE /\ db' = db
            /\ task' = [task EXCEPT ![t] =
                   [task[t] EXCEPT !.pc = "clear", !.writes = <<>>,
                                   !.fault = ~ok,
                                   !.raised = IF ok THEN "IntegrityError"
                                              ELSE "OperationalError"]]
    /\ UNCHANGED <<now, cb, hist, cache>>

\* db.commit() answers: the writes become the table's rows and the sync goes
\* on to clear the cache; or it raises, and the handler rolls back and
\* re-raises.
Commit(t, ok) ==
    /\ task[t].pc = "commit"
    /\ IF ok /\ ~PkViolated(db, task[t].writes)
       THEN /\ db' = Apply(db, task[t].writes)
            /\ task' = [task EXCEPT ![t] = [task[t] EXCEPT !.pc = "clear", !.writes = <<>>,
                                                !.applied = task[t].writes]]
       ELSE /\ db' = db
            /\ task' = [task EXCEPT ![t] =
                   [task[t] EXCEPT !.pc = "done", !.writes = <<>>,
                                   !.fault = ~ok,
                                   !.raised = IF ok THEN "IntegrityError"
                                              ELSE "OperationalError"]]
    /\ UNCHANGED <<now, cb, hist, cache>>

ClearCacheCountsKeys(t, ok) ==
    /\ task[t].pc = "clear"
    /\ cache' = IF ok THEN {e \in cache : ~MatchesListing(e.key)} ELSE cache
    /\ task' = [task EXCEPT ![t] =
           [task[t] EXCEPT !.pc = "done", !.ret = "count",
                           !.count = Cardinality(cache) - Cardinality(cache')]]
    /\ UNCHANGED <<now, cb, hist, db>>

ClearCacheRaises(t, ok) ==
    /\ task[t].pc = "clear"
    /\ cache' = IF ok THEN {e \in cache : ~MatchesListing(e.key)} ELSE cache
    /\ task' = [task EXCEPT ![t] =
           IF ok
           THEN [task[t] EXCEPT !.pc = "done", !.ret = "count", !.count = task[t].synced]
           ELSE [task[t] EXCEPT !.pc = "done", !.raised = "ConnectionError"]]
    /\ UNCHANGED <<now, cb, hist, db>>

\* cache.clear_pattern("characters:*") answers: the keys are gone (ok), or the
\* cache is down and nothing changes; the sync returns synced_count.
ClearCache(t, ok) ==
    /\ task[t].pc = "clear"
    /\ cache' = IF ok THEN {e \in cache : ~MatchesListing(e.key)} ELSE cache
    /\ task' = [task EXCEPT ![t] =
           [task[t] EXCEPT !.pc = "done", !.ret = "count", !.count = task[t].synced]]
    /\ UNCHANGED <<now, cb, hist, db>>

-----------------------------------------------------------------------------
(* The endpoints GET /characters and GET /characters/{character_id} *)

ListRoute == "GET /characters"
CharacterRoute == "GET /characters/{character_id}"

RejectsBelowZero(route, a) ==
    IF route = ListRoute
    THEN \/ a.page < 0
         \/ a.per_page < 0 \/ a.per_page > MaxPerPage
         \/ a.sort_by \notin {"id", "name", "created_at"}
         \/ a.sort_order \notin {"asc", "desc"}
    ELSE a.character_id < 0

\* The checks that raise HTTPException(status_code=400) before the service is
\* called.
Rejects(route, a) ==
    IF route = ListRoute
    THEN \/ a.page < 1
         \/ a.per_page < 1 \/ a.per_page > MaxPerPage
         \/ a.sort_by \notin {"id", "name", "created_at"}
         \/ a.sort_order \notin {"asc", "desc"}
    ELSE a.character_id < 1

TotalPagesRoundsDown(total, per_page) == total \div per_page

\* total_pages = (total + per_page - 1) // per_page
TotalPages(total, per_page) == (total + per_page - 1) \div per_page

\* The "pagination" object of GET /characters.
Pagination(page, per_page, total) ==
    [total_pages |-> TotalPages(total, per_page),
     has_next |-> page < TotalPages(total, per_page),
     has_prev |-> page > 1]

\* /healthcheck after get_stats returned or raised: the data check fails when
\* get_stats raised or returned a value without the keys read from it; the
\* answer is 503 for unhealthy and 200 otherwise.
HealthReply(rec) ==
    LET data == IF rec.raised # NoExc \/ rec.result = NoView THEN "unhealthy" ELSE "healthy"
        end == AfterCheck(rec, "data", data)
    IN [end EXCEPT !.http = IF end.overall = "unhealthy" THEN 503 ELSE 200]

\* The endpoint's code after the service returned or raised: 500 for an
\* exception, 404 for a character that is not stored, else 200.  A read
\* called without an endpoint just returns.
Reply(rec) ==
    IF rec.route = "none" THEN rec
    ELSE IF rec.route = HealthRoute THEN HealthReply(rec)
    ELSE IF rec.raised # NoExc THEN [rec EXCEPT !.http = 500]
    ELSE IF rec.route = ListRoute
    THEN [rec EXCEPT !.http = 200,
                     !.block = Pagination(rec.args.page, rec.args.per_page, rec.result.total)]
    ELSE IF rec.result = NoView THEN [rec EXCEPT !.http = 404]
    ELSE [rec EXCEPT !.http = 200]

\* A read begins: the code up to cache.get.
StartRead(t, op) ==
    /\ task[t].pc \in {"idle", "done"}
    /\ task' = [task EXCEPT ![t] = ServiceCall(TaskIdle, op, DefaultArgs)]
    /\ UNCHANGED <<now, cb, hist, db, cache>>

\* CharacterService.get_characters is called with these arguments.
StartList(t, a) ==
    /\ task[t].pc \in {"idle", "done"}
    /\ task' = [task EXCEPT ![t] = ServiceCall(TaskIdle, "get_characters", a)]
    /\ UNCHANGED <<now, cb, hist, db, cache>>

\* A request reaches an endpoint: it is answered 400, or the service is
\* called.
Request(t, route, a) ==
    /\ task[t].pc \in {"idle", "done"}
    /\ task' = [task EXCEPT ![t] =
           IF Rejects(route, a)
           THEN [TaskIdle EXCEPT !.pc = "done", !.route = route, !.args = a, !.http = 400]
           ELSE ServiceCall([TaskIdle EXCEPT !.route = route],
                            IF route = ListRoute THEN "get_characters"
                            ELSE "get_character_by_id", a)]
    /\ UNCHANGED <<now, cb, hist, db, cache>>

\* cache.get answers: a value is used and returned, or the read goes on to
\* the table and suspends in db.execute.
CacheGet(t, ok) ==
    /\ task[t].pc = "cache_get"
    /\ LET got == CacheGetResult(cache, task[t].key, ok)
       IN task' = [task EXCEPT ![t] =
              IF got = NoEntry THEN [task[t] EXCEPT !.pc = "db_read"]
              ELSE IF UseRaises(task[t].op, got) # NoExc
              THEN Reply([task[t] EXCEPT !.pc = "done",
                                         !.raised = UseRaises(task[t].op, got)])
              ELSE Reply([task[t] EXCEPT !.pc = "done", !.ret = "cached", !.hit = TRUE,
                                         !.result = got.view])]
    /\ UNCHANGED <<now, cb, hist, db, cache>>

\* The queries of the read answer: get_character_by_id returns None for an
\* id that is not stored; otherwise the read suspends in cache.set.
DbRead(t) ==
    /\ task[t].pc = "db_read"
    /\ \E view \in ViewsFor(task[t].op, task[t].args, db) :
          task' = [task EXCEPT ![t] =
              IF view = NoView
              THEN Reply([task[t] EXCEPT !.pc = "done", !.ret = "None", !.result = NoView])
              ELSE [task[t] EXCEPT !.pc = "cache_set", !.result = view]]
    /\ UNCHANGED <<now, cb, hist, db, cache>>

\* cache.set answers: the value is stored (ok) or the failure is swallowed;
\* the read returns what it computed.
CacheSet(t, ok) ==
    /\ task[t].pc = "cache_set"
    /\ cache' = IF ok THEN Store(cache, task[t].key, task[t].result) ELSE cache
    /\ task' = [task EXCEPT ![t] = Reply([task[t] EXCEPT !.pc = "done", !.ret = "view"])]
    /\ UNCHANGED <<now, cb, hist, db>>

\* A query of the read raises: the read logs and re-raises.
DbReadFails(t) ==
    /\ task[t].pc = "db_read"
    /\ task' = [task EXCEPT ![t] =
           Reply([task[t] EXCEPT !.pc = "done", !.raised = "OperationalError"])]
    /\ UNCHANGED <<now, cb, hist, db, cache>>

\* GET /healthcheck begins: the code up to the query of check_db_connection.
HealthRequest(t) ==
    /\ task[t].pc \in {"idle", "done"}
    /\ task' = [task EXCEPT ![t] =
           [TaskIdle EXCEPT !.op = "healthcheck", !.route = HealthRoute,
                            !.pc = "db_ping", !.overall = "healthy"]]
    /\ UNCHANGED <<now, cb, hist, db, cache>>

\* rick_morty_client.health_check() is called: its _make_request goes through
\* the breaker.
CallApi(rec) == BeginCall([rec EXCEPT !.op = "health_check"], cb, hist, now)

\* check_db_connection answers True (ok) or False.  cache.health_check then
\* suspends in ping, or, with no Redis client (~connected), returns
\* "disconnected" at once and the endpoint goes on to the upstream check.
DbPing(t, ok, connected) ==
    /\ task[t].pc = "db_ping"
    /\ LET rec == AfterCheck(task[t], "database", IF ok THEN "healthy" ELSE "unhealthy")
       IN task' = [task EXCEPT ![t] =
              IF connected THEN [rec EXCEPT !.pc = "cache_ping"]
              ELSE CallApi(AfterCheck(rec, "cache", "disconnected"))]
    /\ UNCHANGED <<now, cb, hist, db, cache>>

\* cache.health_check answers "healthy" (ping and info went through) or
\* "unhealthy" (one of them raised); the endpoint goes on to the upstream
\* check.
CachePing(t, ok) ==
    /\ task[t].pc = "cache_ping"
    /\ task' = [task EXCEPT ![t] =
           CallApi(AfterCheck(task[t], "cache", IF ok THEN "healthy" ELSE "unhealthy"))]
    /\ UNCHANGED <<now, cb, hist, db, cache>>

\* The ttl of an entry (setex) runs out.
Expire(key) ==
    /\ \E e \in cache : e.key = key
    /\ cache' = {e \in cache : e.key # key}
    /\ UNCHANGED <<now, cb, task, hist, db>>

-----------------------------------------------------------------------------
(* Inputs *)

GoodItem == Raw(1, "Rick Sanchez", Origin("named", EarthC137), TRUE)
BadItem == Raw(1, "Rick Sanchez", Origin("named", EarthC137), FALSE)
MarsItem == Raw(2, "Rick Sanchez", Origin("named", Mars), TRUE)
UpperItem == Raw(2, "Rick Sanchez", Origin("named", EARTH), TRUE)
NullOriginItem == Raw(2, "Rick Sanchez", Origin("null", <<>>), TRUE)
NoOriginItem == Raw(2, "Rick Sanchez", Origin("missing", <<>>), TRUE)

Failures == {Response(s, <<>>, NoLink) : s \in Statuses \ {"ok"}}

PlainResponses == Failures \cup {Response("ok", <<>>, NoLink)}

CharacterResponses ==
    Failures \cup {Response("ok", <<i>>, NoLink) : i \in {GoodItem, BadItem}}

CrawlResults ==
    {<<>>, <<GoodItem>>, <<MarsItem, UpperItem, GoodItem>>, <<BadItem, NoOriginItem>>,
     <<GoodItem, NullOriginItem>>}

Links ==
    {NoLink, Link("garbage", 0), Link("no_param", 0), Link("null_info", 0)}
        \cup {Link("page", n) : n \in 0..MaxPage}

CrawlResponses ==
    Failures \cup {Response("ok", r, l) : r \in CrawlResults, l \in Links}

SyncItems ==
    {Raw(i, "Rick Sanchez", Origin("named", EarthC137), TRUE) : i \in 1..MaxId}
        \cup {Raw(1, "Rick Sanchez Updated", Origin("named", EarthC137), TRUE)}

SyncResults == {<<>>} \cup {<<a>> : a \in SyncItems}

SyncResponses ==
    {Response("http_500", <<>>, NoLink)}
        \cup {Response("ok", r, l) : r \in SyncResults,
                                     l \in {NoLink} \cup {Link("page", n) : n \in 2..MaxPage}}

\* The entries reads of the empty table leave behind.
EarlierEntries ==
    {Entry(CacheKey(op), "ok", ViewOf(op, <<>>)) : op \in {"get_characters", "get_stats"}}

\* What the Redis may hold under the listing key when the process starts.
ForeignEntries ==
    {{}, {Entry(ListingKey, "misshapen", NoView)}, {Entry(ListingKey, "undecodable", NoView)}}

ResponsesFor(op) ==
    CASE op = "health_check" -> PlainResponses
      [] op = "get_character" -> CharacterResponses
      [] op = "sync" -> SyncResponses
      [] OTHER -> CrawlResponses

-----------------------------------------------------------------------------
(* The client under concurrent request handlers *)

ClientOps == {"health_check", "get_character"}

Next ==
    \/ \E d \in Deadlines : \E n \in {d - 1, d} : Tick(n)
    \/ \E t \in Tasks, op \in ClientOps : Start(t, op)
    \/ \E t \in Tasks : \E resp \in ResponsesFor(task[t].op) : Respond(t, resp)
    \/ \E t \in Tasks : Wake(t)

Spec == Init /\ [][Next]_vars

-----------------------------------------------------------------------------
(* A crawl beside a health check *)

NextCrawl ==
    \/ \E d \in Deadlines : \E n \in {d - 1, d} : Tick(n)
    \/ Start("t1", "crawl")
    \/ Start("t2", "health_check")
    \/ \E t \in Tasks : \E resp \in ResponsesFor(task[t].op) : Respond(t, resp)
    \/ \E t \in Tasks : Wake(t)

SpecCrawl == Init /\ [][NextCrawl]_vars

-----------------------------------------------------------------------------
(* Syncs one after another, over a cache holding entries of earlier reads *)

InitSync ==
    /\ now = 0
    /\ cb = CbInit
    /\ task = [t \in Tasks |-> TaskIdle]
    /\ hist = HistInit
    /\ db = <<>>
    /\ cache \in {{}, EarlierEntries}

NextSync ==
    \/ \E d \in Deadlines : \E n \in {d - 1, d} : Tick(n)
    \/ Start("t1", "sync")
    \/ \E resp \in ResponsesFor(task["t1"].op) : Respond("t1", resp)
    \/ Wake("t1")
    \/ \E ok \in BOOLEAN : SyncRecord("t1", ok)
    \/ \E ok \in BOOLEAN : Commit("t1", ok)
    \/ \E ok \in BOOLEAN : ClearCache("t1", ok)

SpecSync == InitSync /\ [][NextSync]_vars

-----------------------------------------------------------------------------
(* Two syncs at once, each on its own session: the startup sync and POST     *)
(* /sync.  The upstream answers one page of one record.                      *)

PairResponses == {Response("ok", <<a>>, NoLink) : a \in SyncItems}

NextSyncPair ==
    \/ \E t \in Tasks : Start(t, "sync")
    \/ \E t \in Tasks : \E resp \in PairResponses : Respond(t, resp)
    \/ \E t \in Tasks : \E ok \in BOOLEAN : SyncRecord(t, ok)
    \/ \E t \in Tasks : \E ok \in BOOLEAN : Commit(t, ok)
    \/ \E t \in Tasks : \E ok \in BOOLEAN : ClearCache(t, ok)

SpecSyncPair == Init /\ [][NextSyncPair]_vars

-----------------------------------------------------------------------------
(* A sync beside the reads of GET /characters, /characters/1 and /stats *)

InitRead ==
    /\ now = 0
    /\ cb = CbInit
    /\ task = [t \in Tasks |-> TaskIdle]
    /\ hist = HistInit
    /\ db = <<>>
    /\ cache \in ForeignEntries

NextRead ==
    \/ Start("t1", "sync")
    \/ \E resp \in PairResponses : Respond("t1", resp)
    \/ \E ok \in BOOLEAN : SyncRecord("t1", ok)
    \/ \E ok \in BOOLEAN : Commit("t1", ok)
    \/ \E ok \in BOOLEAN : ClearCache("t1", ok)
    \/ \E op \in ReadOps : StartRead("t2", op)
    \/ \E ok \in BOOLEAN : CacheGet("t2", ok)
    \/ DbRead("t2")
    \/ \E ok \in BOOLEAN : CacheSet("t2", ok)
    \/ \E key \in CacheKeys : Expire(key)

SpecRead == InitRead /\ [][NextRead]_vars

-----------------------------------------------------------------------------
(* GET /characters, GET /characters/{character_id} and get_characters over   *)
(* a table that no sync is changing                                          *)

Stored(id, name, created_at) ==
    [id |-> id, name |-> name, origin |-> EarthC137, created_at |-> created_at]

\* The tables of the listing: none; Charlie, Alice, Bob; characters
\* MaxRows..1, the last inserted first; and rows that share a name and a
\* created_at.
ListTables ==
    {<<>>,
     <<Stored(1, "Charlie", 30), Stored(2, "Alice", 10), Stored(3, "Bob", 20)>>,
     [i \in 1..MaxRows |->
         Stored(MaxRows + 1 - i, "Character " \o ToString(MaxRows + 1 - i), 10 * i)],
     <<Stored(2, "Bob", 10), Stored(1, "Alice", 10), Stored(3, "Bob", 20)>>}

\* The requests of GET /characters and of GET /characters/{character_id}.
\* Those of GET /characters are the requests the endpoint accepts and, for
\* one of them, the requests that differ in one parameter or in all.
AcceptedArgs == {a \in ServiceArgs : ~Rejects(ListRoute, a)}
BaseArgs == {Args(2, 2, "name", "desc", 1)}
RejectedArgs ==
    UNION {{[a EXCEPT !.page = -1], [a EXCEPT !.page = 0],
            [a EXCEPT !.per_page = -1], [a EXCEPT !.per_page = 0],
            [a EXCEPT !.per_page = MaxPerPage + 1],
            [a EXCEPT !.sort_by = "species"], [a EXCEPT !.sort_order = "up"],
            [a EXCEPT !.sort_order = "DESC"],
            Args(0, 0, "species", "up", 1)} : a \in BaseArgs}
RequestArgs == AcceptedArgs \cup RejectedArgs
RequestIds == {[DefaultArgs EXCEPT !.character_id = i] : i \in -1..MaxId}

\* What the Redis may hold when the first request arrives.
ListEntries ==
    {{}, {Entry(ListingKeyOf(Args(1, 2, "id", "asc", 1)), "misshapen", NoView)}}

\* The cache holds no entry of another key: the entries of earlier requests
\* have run out.
OnlyKey(key) == \A e \in cache : e.key = key

InitList ==
    /\ now = 0
    /\ cb = CbInit
    /\ task = [t \in Tasks |-> TaskIdle]
    /\ hist = HistInit
    /\ db \in ListTables
    /\ cache \in ListEntries

NextList ==
    \/ \E a \in ServiceArgs : OnlyKey(ListingKeyOf(a)) /\ StartList("t1", a)
    \/ \E a \in RequestArgs :
          (Rejects(ListRoute, a) \/ OnlyKey(ListingKeyOf(a))) /\ Request("t1", ListRoute, a)
    \/ \E a \in RequestIds :
          (Rejects(CharacterRoute, a) \/ OnlyKey(CharacterKeyOf(a)))
              /\ Request("t2", CharacterRoute, a)
    \/ \E t \in Tasks, ok \in BOOLEAN : CacheGet(t, ok)
    \/ \E t \in Tasks : DbRead(t)
    \/ \E t \in Tasks, ok \in BOOLEAN : CacheSet(t, ok)
    \/ \E key \in ListingKeys \cup CharacterKeys : Expire(key)

SpecList == InitList /\ [][NextList]_vars

-----------------------------------------------------------------------------
(* Syncs and reads one at a time, over a Redis that answers every call *)

\* No handler is between its start and its return.
Quiet == \A t \in Tasks : task[t].pc \in {"idle", "done"}

NextReadSeq ==
    \/ Quiet /\ Start("t1", "sync")
    \/ \E resp \in PairResponses : Respond("t1", resp)
    \/ \E ok \in BOOLEAN : SyncRecord("t1", ok)
    \/ \E ok \in BOOLEAN : Commit("t1", ok)
    \/ ClearCache("t1", TRUE)
    \/ \E op \in ReadOps : Quiet /\ StartRead("t2", op)
    \/ CacheGet("t2", TRUE)
    \/ DbRead("t2")
    \/ CacheSet("t2", TRUE)

SpecReadSeq == Init /\ [][NextReadSeq]_vars

-----------------------------------------------------------------------------
(* A sync and listings of several pages and orders, over a Redis that        *)
(* answers every call: one at a time, and side by side                       *)

\* The listings asked for: the defaults, and pages of two and of MaxPerPage
\* records ordered by id or by name, either way.
SyncedArgs ==
    {DefaultArgs, Args(1, 2, "name", "desc", 1), Args(2, 2, "id", "desc", 1),
     Args(1, MaxPerPage, "name", "asc", 1)}

\* The entries listings of the empty table leave behind, one per listing.
StaleListings ==
    {Entry(ListingKeyOf(a), "ok", View(<<>>, 0)) : a \in SyncedArgs}

InitSyncList ==
    /\ now = 0
    /\ cb = CbInit
    /\ task = [t \in Tasks |-> TaskIdle]
    /\ hist = HistInit
    /\ db = <<>>
    /\ cache \in {{}, StaleListings}

NextSyncThenList ==
    \/ Quiet /\ Start("t1", "sync")
    \/ \E resp \in PairResponses : Respond("t1", resp)
    \/ \E ok \in BOOLEAN : SyncRecord("t1", ok)
    \/ \E ok \in BOOLEAN : Commit("t1", ok)
    \/ ClearCache("t1", TRUE)
    \/ \E a \in SyncedArgs : Quiet /\ StartList("t2", a)
    \/ CacheGet("t2", TRUE)
    \/ DbRead("t2")
    \/ CacheSet("t2", TRUE)

SpecSyncThenList == InitSyncList /\ [][NextSyncThenList]_vars

NextSyncBesideList ==
    \/ Start("t1", "sync")
    \/ \E resp \in PairResponses : Respond("t1", resp)
    \/ \E ok \in BOOLEAN : SyncRecord("t1", ok)
    \/ \E ok \in BOOLEAN : Commit("t1", ok)
    \/ ClearCache("t1", TRUE)
    \/ \E a \in SyncedArgs : StartList("t2", a)
    \/ CacheGet("t2", TRUE)
    \/ DbRead("t2")
    \/ CacheSet("t2", TRUE)

SpecSyncBesideList == InitSyncList /\ [][NextSyncBesideList]_vars

-----------------------------------------------------------------------------
(* GET /healthcheck: the database, the cache, the upstream and the data *)

\* What the Redis may hold under the statistics key when a request arrives.
StatsEntries == {{}, {Entry(StatsKey, "misshapen", NoView)}}

\* What the upstream answers another caller of the client while the request
\* runs.
OtherCallerResponses == {Response("ok", <<>>, NoLink), Response("http_500", <<>>, NoLink)}

InitHealth ==
    /\ now = 0
    /\ cb = CbInit
    /\ task = [t \in Tasks |-> TaskIdle]
    /\ hist = HistInit
    /\ db = <<>>
    /\ cache \in StatsEntries

NextHealth ==
    \/ \E d \in Deadlines : \E n \in {d - 1, d} : Tick(n)
    \/ HealthRequest("t1")
    \/ \E ok, connected \in BOOLEAN : DbPing("t1", ok, connected)
    \/ \E ok \in BOOLEAN : CachePing("t1", ok)
    \/ \E resp \in PlainResponses : Respond("t1", resp)
    \/ Wake("t1")
    \/ Start("t2", "health_check")
    \/ \E resp \in OtherCallerResponses : Respond("t2", resp)
    \/ \E ok \in BOOLEAN : CacheGet("t1", ok)
    \/ DbRead("t1")
    \/ DbReadFails("t1")
    \/ \E ok \in BOOLEAN : CacheSet("t1", ok)
    \/ Expire(StatsKey)

SpecHealth == InitHealth /\ [][NextHealth]_vars

-----------------------------------------------------------------------------
(* Circuit breaker and retry policy *)

\* C1 as claimed: once FAILURE_THRESHOLD (5) logical calls in a row have
\* failed the breaker is open, and every call begun less than
\* RECOVERY_TIMEOUT (30) seconds after it opened is rejected with
\* CircuitBreakerError having sent no HTTP request and made no retry.
C1_OpenAfterThresholdFailsFast ==
    /\ hist.consec >= FAILURE_THRESHOLD => cb.state = "open"
    /\ \A t \in Tasks :
          task[t].inWindow =>
              /\ task[t].outcome = "CircuitBreakerError"
              /\ task[t].attempt = 0

\* C2 as claimed: of the calls admitted while the breaker reads half_open, at
\* most one is in flight at a time.
C2_SingleTrialCall ==
    Cardinality({t \in Tasks : task[t].pc \in InFlight /\ task[t].admitted = "half_open"}) <= 1

\* C3: when a call admitted in half_open ends, a success leaves the breaker
\* closed with the failure counter at 0, and a failure leaves it open with the
\* timer restarted at that instant, a full RECOVERY_TIMEOUT remaining.
C3_TrialOutcomeDecides ==
    [][\A t \in Tasks :
          (task[t].admitted = "half_open" /\ task[t].outcome = "pending"
              /\ task'[t].outcome # "pending")
          => IF task'[t].outcome = "ok"
             THEN cb'.state = "closed" /\ cb'.failures = 0 /\ ~Opened(cb', now')
             ELSE /\ cb'.state = "open"
                  /\ cb'.opened = now'
                  /\ Opened(cb', now')
                  /\ OpenRemaining(cb', now') = RECOVERY_TIMEOUT]_vars

\* C4: a logical call sends at most StopAfterAttempt (3) HTTP requests, and a
\* response body that fails to parse ends the call at that attempt.
C4_AtMostThreeAttemptsNoRetryOnParseError ==
    \A t \in Tasks :
        /\ task[t].attempt <= StopAfterAttempt
        /\ task[t].status = "bad_json" =>
              task[t].pc \notin InFlight /\ task[t].outcome = "JSONDecodeError"

C4_Witness ==
    \E t \in Tasks :
        /\ task[t].status = "bad_json"
        /\ task[t].attempt = 1
        /\ task[t].outcome = "JSONDecodeError"
        /\ task[t].pc = "done"

\* C5 as claimed: a transport error (network failure or non-2xx status) on an
\* attempt before the last does not end the logical call; the call goes on to
\* another attempt.
C5_TransportErrorRetried ==
    \A t \in Tasks :
        (task[t].status \in {"http_500", "http_429", "network"}
            /\ task[t].attempt < StopAfterAttempt)
        => task[t].pc \in InFlight

\* The logical call of task t ends in this step: the decorated coroutine
\* returns or raises after at least one HTTP attempt.
CallEnds(t) == task[t].outcome = "pending" /\ task'[t].outcome # "pending"

\* C27: the breaker records one outcome per logical call: a call that ends in
\* failure raises the failure counter by exactly 1 whatever its attempts
\* were, a call that ends in success sets it to 0 once, and no step inside a
\* call (a response that is slept on, a retry) touches the breaker.
C27_OneOutcomePerLogicalCall ==
    [][/\ \A t \in Tasks :
             CallEnds(t)
             => IF task'[t].outcome = "ok"
                THEN cb'.failures = 0
                ELSE cb'.failures = cb.failures + 1
       /\ (\A t \in Tasks : ~CallEnds(t)) => cb' = cb]_vars

C27_Witness ==
    \E t \in Tasks :
        /\ task[t].pc = "done"
        /\ task[t].status = "http_429"
        /\ task[t].attempt = 1
        /\ task[t].outcome = "RickMortyAPIError"
        /\ now >= RateLimitSleep
        /\ cb.failures = 1

\* C28: no increment of the failure counter is lost: the counter equals the
\* number of logical calls that failed since the last success, whether they
\* ran one after another or at the same time, and the breaker is open once
\* that number has reached FAILURE_THRESHOLD (5).
C28_NoLostIncrement ==
    /\ cb.failures = hist.consec
    /\ hist.consec >= FAILURE_THRESHOLD => cb.state = "open"
    /\ hist.consec < FAILURE_THRESHOLD /\ ~hist.tripped => cb.state = "closed"

\* Two calls have failed after the 429 cooldown of RateLimitSleep (60)
\* seconds each, in less than twice that time: they were in flight together,
\* with the counter at 0, and the counter is 2.
C28_Witness ==
    /\ \A t \in Tasks :
          /\ task[t].pc = "done"
          /\ task[t].status = "http_429"
          /\ task[t].admitted = "closed"
          /\ task[t].attempt = 1
          /\ task[t].outcome = "RickMortyAPIError"
    /\ now < 2 * RateLimitSleep
    /\ cb.failures = 2
    /\ hist.consec = 2
    /\ cb.state = "closed"

\* C29 as claimed: while the breaker is open and its recovery timeout has not
\* run out, no step closes it or lowers the failure counter; only the clock
\* takes it out of open.
C29_OpenLeavesOnlyByTimeout ==
    [][Opened(cb, now) => (cb'.state = "open" /\ cb'.failures >= cb.failures)]_vars

\* C30: a closed breaker's counter is below FAILURE_THRESHOLD (5) and is the
\* number of failures since the last success; every logical call that
\* succeeds sets it to 0 and leaves the breaker closed.
C30_ClosedCountsConsecutiveFailures ==
    /\ [](cb.state = "closed" => (cb.failures < FAILURE_THRESHOLD /\ cb.failures = hist.consec))
    /\ [][\A t \in Tasks :
            (CallEnds(t) /\ task'[t].outcome = "ok")
            => (cb'.state = "closed" /\ cb'.failures = 0)]_vars

\* FAILURE_THRESHOLD - 1 failures, a success, FAILURE_THRESHOLD - 1 failures.
C30_Witness ==
    /\ hist.cut
    /\ cb.failures = FAILURE_THRESHOLD - 1
    /\ hist.consec = FAILURE_THRESHOLD - 1
    /\ cb.state = "closed"
    /\ ~hist.tripped

-----------------------------------------------------------------------------
(* Pagination crawl *)

LastOf(seq) == seq[Len(seq)]

\* The link of a page just handled points past that page.
PointsForward(rec) ==
    rec.last.next.kind = "page" /\ rec.last.next.page > LastOf(rec.requested)

\* C6: the pages one crawl requests are strictly increasing, none is requested
\* twice, the crawl never requests more pages than the upstream's range
\* (1..MaxPage) holds, and once a page has been handled whose next link does
\* not parse to a number above that page the crawl has stopped.
C6_AntiLoop ==
    \A t \in Tasks :
        task[t].op = "crawl" =>
            /\ \A i, j \in 1..Len(task[t].requested) :
                   i < j => task[t].requested[i] < task[t].requested[j]
            /\ Len(task[t].requested) <= MaxPage
            /\ (task[t].outcome = "ok" /\ ~PointsForward(task[t])) => task[t].pc = "done"

C6_Witness ==
    \E t \in Tasks :
        /\ task[t].op = "crawl"
        /\ task[t].pc = "done"
        /\ task[t].requested = <<1, 2>>
        /\ task[t].last.results # <<>>
        /\ task[t].last.next = Link("page", 2)

\* C7: a page with zero raw items ends the crawl, which returns the list as it
\* stood before that page, whatever next link the page carries.
C7_EmptyPageStops ==
    [][\A t \in Tasks :
          (task[t].op = "crawl" /\ task[t].pc = "http"
              /\ task'[t].outcome = "ok" /\ task'[t].last.results = <<>>)
          => /\ task'[t].pc = "done"
             /\ task'[t].ret = "list"
             /\ task'[t].raised = NoExc
             /\ task'[t].all = task[t].all]_vars

C7_Witness ==
    \E t \in Tasks :
        /\ task[t].op = "crawl"
        /\ task[t].pc = "done"
        /\ task[t].outcome = "ok"
        /\ task[t].last.results = <<>>
        /\ task[t].last.next = Link("page", 2)
        /\ task[t].requested = <<1>>

\* The page fetch of task t ends in failure in this step.
FetchFails(t) ==
    /\ task[t].pc \in {"http", "sleep429", "page_sleep"}
    /\ task'[t].outcome \notin {"ok", "pending"}

\* The page of task t arrives in this step and handling it raises.
HandlingFails(t) ==
    /\ task[t].pc = "http"
    /\ task'[t].outcome = "ok"
    /\ FilterRaises(task'[t].last.results) \/ ExtractRaises(task'[t].last.next)

\* C8: no exception leaves get_all_filtered_characters; when a page fetch
\* fails (HTTP or network error, unparsable body, circuit open) or handling
\* the page raises, the crawl ends at once and returns a list: the list as it
\* stood before the failed fetch, and at least that list otherwise.
C8_CrawlNeverRaises ==
    /\ [](\A t \in Tasks : task[t].op = "crawl" => task[t].raised = NoExc)
    /\ [][\A t \in Tasks :
            (task[t].op = "crawl" /\ (FetchFails(t) \/ HandlingFails(t)))
            => /\ task'[t].pc = "done"
               /\ task'[t].ret = "list"
               /\ FetchFails(t) => task'[t].all = task[t].all
               /\ SubSeq(task'[t].all, 1, Len(task[t].all)) = task[t].all]_vars

C8_Witness ==
    \E t \in Tasks :
        /\ task[t].op = "crawl"
        /\ task[t].pc = "done"
        /\ task[t].outcome = "CircuitBreakerError"
        /\ task[t].requested = <<1, 2>>
        /\ task[t].all # <<>>
        /\ task[t].ret = "list"

\* The origin names of the upstream that contain "earth" in some casing.
EarthLike(name) == name \in {Earth, EarthC137, EARTH}

\* A raw item with every required field present and well typed.
WellFormed(item) == item.ok /\ item.origin.kind = "named"

PassesFilter(item) == WellFormed(item) /\ EarthLike(item.origin.name)

\* The records a page contributes: its well-formed items of an Earth origin,
\* in the order the server sent them.
Kept(results) ==
    LET pass == SelectSeq(results, PassesFilter)
    IN [k \in 1..Len(pass) |-> Parsed(pass[k])]

\* The page requested by crawl t arrives in this step.
PageArrives(t) ==
    /\ task[t].op = "crawl"
    /\ task[t].pc = "http"
    /\ task'[t].outcome = "ok"

Added(t) == SubSeq(task'[t].all, Len(task[t].all) + 1, Len(task'[t].all))

C18_BadItemSkippedAlone ==
    [][\A t \in Tasks :
          (PageArrives(t) /\ task'[t].last.results # <<>>
              /\ ~ExtractRaises(task'[t].last.next))
          => /\ task'[t].all = task[t].all \o Kept(task'[t].last.results)
             /\ PointsForward(task'[t]) => task'[t].pc = "page_sleep"]_vars

\* C19: the result starts empty and grows only when a page has been handled,
\* by that page's filter-passing items in the server's order, appended after
\* the records of the pages before it; nothing else changes it.
C19_ConcatenationInOrder ==
    [][\A t \in Tasks :
          task'[t].op = "crawl" =>
              IF task[t].pc \in {"idle", "done"} /\ task'[t] # task[t]
              THEN task'[t].all = <<>>
              ELSE IF PageArrives(t) /\ ~FilterRaises(task'[t].last.results)
              THEN task'[t].all = task[t].all \o Kept(task'[t].last.results)
              ELSE task'[t].all = task[t].all]_vars

C19_Witness ==
    \E t \in Tasks :
        /\ task[t].op = "crawl"
        /\ task[t].pc = "done"
        /\ task[t].requested = <<1, 2>>
        /\ task[t].last.results = <<GoodItem>>
        /\ task[t].all = <<Parsed(UpperItem), Parsed(GoodItem), Parsed(GoodItem)>>

-----------------------------------------------------------------------------
(* Sync *)

\* The positions of api_characters the loop processed without an exception.
Processed(rec) == (1..Len(rec.all)) \ rec.skipped

CrawledIds(rec) == {rec.all[k].id : k \in Processed(rec)}

\* The last processed record carrying this id, as the row it is stored as.
LastVersion(rec, id) ==
    LET ks == {k \in Processed(rec) : rec.all[k].id = id}
        k == CHOOSE m \in ks : \A n \in ks : n <= m
    IN [id |-> id, name |-> rec.all[k].name, origin |-> rec.all[k].origin]

CommitSucceeds(t) == task[t].pc = "commit" /\ task'[t].pc = "clear"

RowsWithId(rows, id) == {j \in 1..Len(rows) : rows[j].id = id}

\* C9: the table never holds two rows of one id; a commit leaves every stored
\* row at its place, rewrites the rows whose id the sync processed to the
\* crawled name and origin and no other; a processed record whose id is
\* stored adds 1 to synced_count, and the sync raises only when the database
\* fails the commit.
C9_UpsertKeepsIdsUnique ==
    /\ [](\A i, j \in 1..Len(db) : i # j => db[i].id # db[j].id)
    /\ [](\A t \in Tasks :
            (task[t].op = "sync" /\ task[t].raised # NoExc) => task[t].fault)
    /\ [][\A t \in Tasks :
            CommitSucceeds(t) =>
                /\ Len(db') >= Len(db)
                /\ \A i \in 1..Len(db) :
                      /\ db'[i].id = db[i].id
                      /\ Cardinality(RowsWithId(db', db[i].id)) = 1
                      /\ db'[i] = IF db[i].id \in CrawledIds(task[t])
                                  THEN LastVersion(task[t], db[i].id)
                                  ELSE db[i]]_vars
    /\ [][\A t \in Tasks :
            (task[t].pc = "select" /\ task'[t].idx = task[t].idx + 1
                /\ task[t].idx \notin task'[t].skipped
                /\ task[t].all[task[t].idx].id \in IdsOf(db))
            => task'[t].synced = task[t].synced + 1]_vars

C9_Witness ==
    \E t \in Tasks :
        /\ task[t].op = "sync"
        /\ task[t].pc = "done"
        /\ task[t].ret = "count"
        /\ task[t].count = 1
        /\ task[t].applied =
               <<Update([id |-> 1, name |-> "Rick Sanchez Updated", origin |-> EarthC137])>>
        /\ db = <<[id |-> 1, name |-> "Rick Sanchez Updated", origin |-> EarthC137]>>

\* C10: a commit adds exactly one row for every processed id the table did not
\* hold, carrying the crawled fields, and no other row; a sync of one record
\* that returned after inserting it returned 1 and the row is in the table.
C10_InsertsOnePerNewId ==
    /\ [][\A t \in Tasks :
            CommitSucceeds(t) =>
                LET new == CrawledIds(task[t]) \ IdsOf(db)
                IN /\ Len(db') = Len(db) + Cardinality(new)
                   /\ IdsOf(db') = IdsOf(db) \cup new
                   /\ \A id \in new :
                         \E j \in 1..Len(db') :
                             /\ RowsWithId(db', id) = {j}
                             /\ db'[j] = LastVersion(task[t], id)]_vars
    /\ [](\A t \in Tasks :
            (task[t].op = "sync" /\ task[t].pc = "done" /\ task[t].ret = "count"
                /\ Len(task[t].all) = 1 /\ Len(task[t].applied) = 1
                /\ task[t].applied[1].kind = "insert")
            => /\ task[t].count = 1
               /\ Cardinality(RowsWithId(db, task[t].all[1].id)) = 1
               /\ db[Find(db, task[t].all[1].id)] = LastVersion(task[t], task[t].all[1].id))

C10_Witness ==
    \E t \in Tasks :
        /\ task[t].op = "sync"
        /\ task[t].pc = "done"
        /\ task[t].count = 1
        /\ task[t].applied =
               <<Insert([id |-> 1, name |-> "Rick Sanchez", origin |-> EarthC137])>>
        /\ db = <<[id |-> 1, name |-> "Rick Sanchez", origin |-> EarthC137]>>

\* The crawl is under way: a request in flight or a sleep of the client.
Crawling == InFlight \cup {"page_sleep"}

\* get_all_filtered_characters returns to the sync of task t in this step.
CrawlReturns(t) ==
    /\ task'[t].op = "sync"
    /\ task'[t] # task[t]
    /\ task[t].pc \in Crawling \cup {"idle", "done"}
    /\ task'[t].pc \notin Crawling

\* C11: when the crawl returns no records the sync returns 0 at once: no
\* write is pending or committed, the table and the cache are as they were.
C11_EmptyCrawlChangesNothing ==
    /\ [][\A t \in Tasks :
            (CrawlReturns(t) /\ task'[t].all = <<>>)
            => /\ task'[t].pc = "done"
               /\ task'[t].ret = "count"
               /\ task'[t].count = 0
               /\ task'[t].raised = NoExc
               /\ task'[t].writes = <<>>
               /\ task'[t].applied = <<>>
               /\ db' = db
               /\ cache' = cache]_vars
    /\ [](\A t \in Tasks :
            (task[t].op = "sync" /\ task[t].all = <<>> /\ task[t].pc \notin Crawling)
            => task[t].pc = "done" /\ task[t].count = 0 /\ task[t].applied = <<>>)

C11_Witness ==
    \E t \in Tasks :
        /\ task[t].op = "sync"
        /\ task[t].pc = "done"
        /\ task[t].stopped = "empty"
        /\ task[t].all = <<>>
        /\ task[t].ret = "count"
        /\ task[t].count = 0
        /\ db # <<>>
        /\ cache # {}

\* C15: no step removes an id from the table or shortens it, and a stored
\* row changes only in a successful commit of a sync that processed its id;
\* a failed sync and a sync whose crawl lacks the id leave the row as it was.
C15_SyncNeverDeletes ==
    [][/\ IdsOf(db) \subseteq IdsOf(db')
       /\ Len(db') >= Len(db)
       /\ \A i \in 1..Len(db) :
             (\A t \in Tasks :
                 ~(CommitSucceeds(t) /\ db[i].id \in CrawledIds(task[t])))
             => db'[i] = db[i]]_vars

C15_Witness ==
    \E t \in Tasks :
        /\ task[t].op = "sync"
        /\ task[t].pc = "done"
        /\ task[t].all = <<[id |-> 1, name |-> "Rick Sanchez Updated", origin |-> EarthC137]>>
        /\ Len(task[t].applied) = 1
        /\ Len(db) = 2
        /\ \E i \in 1..Len(db) :
              db[i] = [id |-> 2, name |-> "Rick Sanchez", origin |-> EarthC137]

\* The crawl of sync t stops on a failed page fetch in this step, holding
\* records of earlier pages.
TruncatedCrawl(t) ==
    /\ CrawlReturns(t)
    /\ task'[t].outcome \notin {"ok", "pending"}
    /\ task[t].all # <<>>

\* C20: when a page fetch fails after earlier pages produced records, the
\* sync goes on to upsert exactly those records; unless the database itself
\* fails, it commits them, does not raise and returns their count.
C20_PartialCrawlIsSynced ==
    /\ [][\A t \in Tasks :
            TruncatedCrawl(t)
            => /\ task'[t].pc = "select"
               /\ task'[t].raised = NoExc
               /\ task'[t].all = task[t].all
               /\ task'[t].idx = 1]_vars
    /\ [](\A t \in Tasks :
            (task[t].op = "sync" /\ task[t].stopped = "error" /\ task[t].all # <<>>
                /\ task[t].pc = "done")
            => IF task[t].fault THEN task[t].raised # NoExc
               ELSE /\ task[t].raised = NoExc
                    /\ task[t].ret = "count"
                    /\ task[t].count = Cardinality(Processed(task[t]))
                    /\ Len(task[t].applied) = task[t].count
                    /\ \A id \in CrawledIds(task[t]) :
                          \E i \in 1..Len(db) : db[i] = LastVersion(task[t], id))

C20_Witness ==
    \E t \in Tasks :
        /\ task[t].op = "sync"
        /\ task[t].pc = "done"
        /\ task[t].requested = <<1, 2>>
        /\ task[t].outcome = "RickMortyAPIError"
        /\ task[t].stopped = "error"
        /\ task[t].raised = NoExc
        /\ task[t].count = 1
        /\ db = <<[id |-> 1, name |-> "Rick Sanchez", origin |-> EarthC137]>>

\* C14 as claimed: of two syncs running at once neither fails because of the
\* other (a sync raises only when the database fails its commit), and each
\* commit leaves every id it processed with the fields that sync crawled.
C14_ConcurrentSyncsLastCommitWins ==
    /\ [](\A t \in Tasks :
            (task[t].op = "sync" /\ task[t].pc = "done" /\ task[t].all # <<>>
                /\ ~task[t].fault)
            => task[t].raised = NoExc /\ task[t].ret = "count")
    /\ [][\A t \in Tasks :
            CommitSucceeds(t) =>
                \A id \in CrawledIds(task[t]) :
                    \A i \in RowsWithId(db', id) : db'[i] = LastVersion(task[t], id)]_vars

\* The sync of task t returns from cache.clear_pattern in this step.
ClearReturns(t) == task[t].pc = "clear" /\ task'[t].pc # "clear"

\* C21: a sync that succeeds returns the number of records its loop
\* processed without an exception, each of them inserted or updated by the
\* commit; skipped records are not counted, and the number is the same
\* whatever the invalidation cleared.
C21_CountIsProcessedRecords ==
    /\ [][\A t \in Tasks :
            ClearReturns(t)
            => /\ task'[t].ret = "count"
               /\ task'[t].count = Cardinality(Processed(task[t]))
               /\ task'[t].count = Len(task[t].applied)
               /\ task'[t].count = Len(task[t].all) - Cardinality(task[t].skipped)]_vars
    /\ [](\A t \in Tasks :
            (task[t].op = "sync" /\ task[t].pc = "done" /\ task[t].ret = "count")
            => task[t].count = Len(task[t].applied))

C21_Witness ==
    \E t \in Tasks :
        /\ task[t].op = "sync"
        /\ task[t].pc = "done"
        /\ task[t].ret = "count"
        /\ Len(task[t].all) = 2
        /\ task[t].skipped = {1}
        /\ task[t].count = 1
        /\ Len(db) = 1
        /\ cache = {Entry(StatsKey, "ok", ViewOf("get_stats", <<>>))}

\* The listing entries are still cached after the step: the invalidation
\* failed.
ClearFailed == \E e \in cache' : MatchesListing(e.key)

\* C22: when the invalidation after a successful commit fails, the sync
\* still returns its count without raising, and the committed rows stay.
C22_ClearFailureIsNotFatal ==
    [][\A t \in Tasks :
          (ClearReturns(t) /\ ClearFailed)
          => /\ task'[t].pc = "done"
             /\ task'[t].raised = NoExc
             /\ task'[t].ret = "count"
             /\ task'[t].count = task[t].synced
             /\ cache' = cache
             /\ db' = db
             /\ \A i \in 1..Len(task[t].applied) :
                    \E j \in 1..Len(db') : db'[j] = LastVersion(task[t], task[t].applied[i].row.id)]_vars

C22_Witness ==
    \E t \in Tasks :
        /\ task[t].op = "sync"
        /\ task[t].pc = "done"
        /\ task[t].ret = "count"
        /\ task[t].count = 1
        /\ task[t].applied # <<>>
        /\ db = <<[id |-> 1, name |-> "Rick Sanchez", origin |-> EarthC137]>>
        /\ cache = EarlierEntries

-----------------------------------------------------------------------------
(* Reads and the cache *)

\* The entries this code wrote.
ProgramWritten(c) == {e \in c : e.form = "ok"}

\* What a read begun now, over a working cache, returns.
ReadResult(op, rows, c) ==
    IF CacheGetResult(c, CacheKey(op), TRUE) = NoEntry
    THEN ViewOf(op, rows)
    ELSE CacheGetResult(c, CacheKey(op), TRUE).view

\* A commit that fails leaves the table and the cache as they were, drops the
\* session's writes and raises to the caller of the sync.
FailedCommitLeavesStore ==
    [][\A t \in Tasks :
          (task[t].pc = "commit" /\ task'[t].pc = "done")
          => /\ db' = db
             /\ cache' = cache
             /\ task'[t].writes = <<>>
             /\ task'[t].raised # NoExc]_vars

\* C12 as claimed: a failed commit is rolled back whole and raised, and once
\* the failed sync is over every read returns the table as the last
\* successful sync left it.
C12_FailedCommitRollsBack ==
    /\ FailedCommitLeavesStore
    /\ [](\A t \in Tasks :
            (task[t].op = "sync" /\ task[t].pc = "done" /\ task[t].fault /\ Quiet)
            => \A op \in ReadOps :
                  ReadResult(op, db, ProgramWritten(cache)) = ViewOf(op, db))

\* C13 as claimed: once a sync that committed records has returned, every
\* read (the listing, the character, the statistics) returns the committed
\* table, whether or not an entry for it was cached before the sync.
C13_ReadsReflectSync ==
    \A t \in Tasks :
        (task[t].op = "sync" /\ task[t].pc = "done" /\ task[t].ret = "count"
            /\ task[t].applied # <<>> /\ Quiet)
        => \A op \in ReadOps :
              ReadResult(op, db, ProgramWritten(cache)) = ViewOf(op, db)

\* C16 as claimed: no read raises; a read whose cache.get yields nothing it
\* can use (cache down, backend error, key absent, value undecodable or not
\* of the read's shape) goes on to the table and returns what the table
\* holds, and a failed cache.set changes neither the answer nor the outcome.
C16_CacheFailureNeverFailsRead ==
    /\ [](\A t \in Tasks : task[t].op \in ReadOps => task[t].raised = NoExc)
    /\ [][\A t \in Tasks :
            (task[t].pc = "cache_get" /\ task'[t].pc # "cache_get"
                /\ Lookup(cache, task[t].key).form # "ok")
            => task'[t].pc = "db_read"]_vars
    /\ [][\A t \in Tasks :
            (task[t].pc = "db_read" /\ task'[t].pc # "db_read")
            => task'[t].result = ViewOf(task[t].op, db)]_vars
    /\ [][\A t \in Tasks :
            (task[t].pc = "cache_set" /\ task'[t].pc = "done")
            => /\ task'[t].result = task[t].result
               /\ task'[t].raised = NoExc]_vars

-----------------------------------------------------------------------------
(* Listing, ordering, validation and the pagination block *)

\* The column a listing is ordered by and its direction, as requested.
Field(a) == IF a.sort_by \in {"name", "created_at"} THEN a.sort_by ELSE "id"

Descending(a) == a.sort_order \in {"desc", "DESC"}

FieldValue(row, a) ==
    CASE Field(a) = "name" -> Collate(row.name)
      [] Field(a) = "created_at" -> row.created_at
      [] OTHER -> row.id

StrictlyBefore(r, s, a) ==
    IF Descending(a) THEN FieldValue(r, a) > FieldValue(s, a)
    ELSE FieldValue(r, a) < FieldValue(s, a)

InOrder(rows, a) ==
    \A i, j \in 1..Len(rows) : i < j => ~StrictlyBefore(rows[j], rows[i], a)

DistinctValues(rows, a) ==
    \A i, j \in 1..Len(rows) : i # j => FieldValue(rows[i], a) # FieldValue(rows[j], a)

Reverse(seq) == [i \in 1..Len(seq) |-> seq[Len(seq) + 1 - i]]

\* get_characters of task t gets the answers of its queries in this step: the
\* cache had no usable entry.
ListMiss(t) ==
    task[t].op = "get_characters" /\ task[t].pc = "db_read" /\ task'[t].pc # "db_read"

\* C23: on a cache miss get_characters(page, per_page) returns the stored
\* records at positions (page-1)*per_page+1 .. page*per_page of the
\* requested ordering, as many of them as exist, each once, and total is the
\* number of stored records.
C23_PageOfTheOrdering ==
    [][\A t \in Tasks :
          ListMiss(t)
          => LET a == task[t].args
                 r == task'[t].result
                 first == (a.page - 1) * a.per_page + 1
                 last == a.page * a.per_page
             IN /\ r.total = Len(db)
                /\ Len(r.rows) = Cardinality({k \in first..last : k <= Len(db)})
                /\ \A i, j \in 1..Len(r.rows) : i # j => r.rows[i].id # r.rows[j].id
                /\ \A i \in 1..Len(r.rows) :
                      /\ \E j \in 1..Len(db) : db[j] = r.rows[i]
                      /\ Cardinality({j \in 1..Len(db) : StrictlyBefore(db[j], r.rows[i], a)})
                             <= first + i - 2
                      /\ Cardinality({j \in 1..Len(db) : ~StrictlyBefore(r.rows[i], db[j], a)})
                             >= first + i - 1]_vars

C23_Witness ==
    \E t \in Tasks :
        /\ task[t].op = "get_characters"
        /\ task[t].pc = "done"
        /\ ~task[t].hit
        /\ task[t].args = Args(2, 2, "id", "asc", 1)
        /\ Len(db) = 5
        /\ Len(task[t].result.rows) = 2
        /\ task[t].result.rows[1].id = 3
        /\ task[t].result.rows[2].id = 4
        /\ task[t].result.total = 5

\* C24: the records get_characters returns are ordered by the requested
\* field (id unless sort_by is name or created_at), descending when
\* sort_order is "desc" and ascending otherwise; and when the stored values
\* of the field are distinct, the whole listing in descending order is the
\* reverse of the whole listing in ascending order.
C24_OrderedAsRequested ==
    /\ [](\A t \in Tasks :
            (task[t].op = "get_characters" /\ task[t].pc \in {"cache_set", "done"}
                /\ task[t].raised = NoExc)
            => InOrder(task[t].result.rows, task[t].args))
    /\ [][\A t \in Tasks :
            (ListMiss(t) /\ Descending(task[t].args) /\ task[t].args.page = 1
                /\ task[t].args.per_page >= Len(db) /\ DistinctValues(db, task[t].args))
            => \A asc \in ViewsFor("get_characters",
                                   [task[t].args EXCEPT !.sort_order = "asc"], db) :
                   /\ Len(asc.rows) = Len(db)
                   /\ task'[t].result.rows = Reverse(asc.rows)]_vars

C24_Witness ==
    \E t \in Tasks :
        /\ task[t].op = "get_characters"
        /\ task[t].pc = "done"
        /\ task[t].args = Args(1, MaxPerPage, "name", "desc", 1)
        /\ Len(task[t].result.rows) = 3
        /\ task[t].result.rows[1].name = "Charlie"
        /\ task[t].result.rows[2].name = "Bob"
        /\ task[t].result.rows[3].name = "Alice"

\* The requests C25 names.
BadRequest(route, a) ==
    \/ /\ route = ListRoute
       /\ \/ a.page < 1
          \/ a.per_page < 1
          \/ a.per_page > 100
          \/ a.sort_by \notin {"id", "name", "created_at"}
          \/ a.sort_order \notin {"asc", "desc"}
    \/ route = CharacterRoute /\ a.character_id < 1

\* C25: a request of GET /characters with page < 1, per_page < 1,
\* per_page > 100, sort outside {id, name, created_at} or order outside
\* {asc, desc}, and a request of GET /characters/{id} with id < 1, is
\* answered 400 in the step it arrives, with no cache key computed, no read
\* of the cache or of the table, and both left as they were.
C25_InvalidRequestAnswers400 ==
    /\ [][\A t \in Tasks :
            (task[t].pc \in {"idle", "done"} /\ task'[t] # task[t]
                /\ BadRequest(task'[t].route, task'[t].args))
            => /\ task'[t].pc = "done"
               /\ task'[t].http = 400
               /\ task'[t].key = "none"
               /\ ~task'[t].hit
               /\ task'[t].result = NoView
               /\ cache' = cache
               /\ db' = db]_vars
    /\ [](\A t \in Tasks :
            BadRequest(task[t].route, task[t].args)
            => (task[t].pc = "done" /\ task[t].http = 400 /\ task[t].key = "none"))

C25_Witness ==
    /\ task["t1"].route = ListRoute
    /\ task["t1"].args.page = 0
    /\ task["t1"].pc = "done"
    /\ task["t1"].http = 400
    /\ task["t2"].route = CharacterRoute
    /\ task["t2"].args.character_id = 0
    /\ task["t2"].pc = "done"
    /\ task["t2"].http = 400
    /\ cache # {}

\* C26: the pagination block of every GET /characters answer has
\* total_pages = ceil(total / per_page), has_next = (page < total_pages) and
\* has_prev = (page > 1); for total 0 that is total_pages 0 and has_next
\* false.  Every valid request whose read does not raise is answered so.
C26_PaginationBlock ==
    \A t \in Tasks :
        /\ (task[t].route = ListRoute /\ task[t].pc = "done" /\ task[t].raised = NoExc
               /\ ~BadRequest(ListRoute, task[t].args))
           => task[t].http = 200
        /\ (task[t].route = ListRoute /\ task[t].pc = "done" /\ task[t].http = 200)
           => LET a == task[t].args
                  total == task[t].result.total
                  b == task[t].block
              IN /\ b.total_pages >= 0
                 /\ b.total_pages * a.per_page >= total
                 /\ (b.total_pages - 1) * a.per_page < total
                 /\ b.has_next = (a.page < b.total_pages)
                 /\ b.has_prev = (a.page > 1)
                 /\ total = 0 => (b.total_pages = 0 /\ ~b.has_next)

C26_Witness ==
    \E t \in Tasks :
        /\ task[t].route = ListRoute
        /\ task[t].pc = "done"
        /\ task[t].http = 200
        /\ task[t].args.page = 2
        /\ task[t].args.per_page = 2
        /\ task[t].result.total = 5
        /\ task[t].block = [total_pages |-> 3, has_next |-> TRUE, has_prev |-> TRUE]

-----------------------------------------------------------------------------
(* The breaker shared by the crawl and health_check *)

\* C31 as claimed: the failures of every caller count on one breaker, which
\* is open once FAILURE_THRESHOLD (5) logical calls in a row have failed,
\* whoever made them; and a crawl whose first page is requested less than
\* RECOVERY_TIMEOUT (30) seconds after the breaker opened sends no HTTP
\* request and returns an empty list.
C31_SharedBreakerStopsCrawl ==
    /\ hist.consec >= FAILURE_THRESHOLD => cb.state = "open"
    /\ \A t \in Tasks :
          (task[t].op = "crawl" /\ Len(task[t].requested) = 1 /\ task[t].inWindow)
          => /\ task[t].attempt = 0
             /\ task[t].outcome = "CircuitBreakerError"
             /\ task[t].pc = "done"
             /\ task[t].ret = "list"
             /\ task[t].all = <<>>

\* C32 as claimed: when a page has been fetched, the crawl goes on to another
\* page if and only if the page holds at least one raw item and its next link
\* parses to a page number above the page just requested; what the filter
\* makes of the items plays no part.
C32_NextPageIffForward ==
    [][\A t \in Tasks :
          PageArrives(t)
          => (task'[t].pc = "page_sleep"
              <=> (task'[t].last.results # <<>> /\ PointsForward(task'[t])))]_vars

-----------------------------------------------------------------------------
(* get_character and the failures of its request *)

\* The ways the claim names in which _make_request fails: a transport error
\* (surfaced as RickMortyAPIError), the error left after the retries, and the
\* rejection by the open breaker.
RequestFailures == {"RickMortyAPIError", "RetryError", "CircuitBreakerError"}

\* C37 as claimed: whenever the request of get_character fails in one of
\* these ways, get_character returns None and raises nothing.
C37_GetCharacterReturnsNoneOnFailure ==
    \A t \in Tasks :
        (task[t].op = "get_character" /\ task[t].pc = "done"
            /\ task[t].outcome \in RequestFailures)
        => /\ task[t].ret = "None"
           /\ task[t].raised = NoExc

-----------------------------------------------------------------------------
(* The cooldown after HTTP 429 *)

\* C38: an attempt that receives HTTP 429 goes to sleep for RateLimitSleep
\* (60) seconds with its error not yet surfaced: the call is still pending,
\* its caller has neither a result nor an exception, and the breaker is
\* untouched. Only when the sleep has run its full time does the call fail
\* with RickMortyAPIError. No attempt with another status sleeps this sleep.
C38_CooldownBeforeError ==
    [][\A t \in Tasks :
          /\ (task[t].pc = "http" /\ task'[t].status = "http_429")
             => /\ task'[t].pc = "sleep429"
                /\ task'[t].wake = now + RateLimitSleep
                /\ task'[t].outcome = "pending"
                /\ task'[t].attempt = task[t].attempt
                /\ task'[t].ret = task[t].ret
                /\ task'[t].raised = task[t].raised
                /\ cb' = cb
          /\ (task[t].pc = "sleep429" /\ task'[t] # task[t])
             => /\ now >= task[t].wake
                /\ task[t].status = "http_429"
                /\ task'[t].outcome = "RickMortyAPIError"
                /\ cb'.failures = cb.failures + 1
          /\ (task'[t].pc = "sleep429" /\ task[t].pc # "sleep429")
             => task'[t].status = "http_429"]_vars

\* get_character received 429 at time 0 and returned None when the cooldown
\* had run, not before.
C38_Witness ==
    \E t \in Tasks :
        /\ task[t].op = "get_character"
        /\ task[t].pc = "done"
        /\ task[t].status = "http_429"
        /\ task[t].ret = "None"
        /\ now = RateLimitSleep
        /\ cb.failures = 1

-----------------------------------------------------------------------------
(* The order of commit and invalidation, and records that fail *)

\* C34: a sync reaches its cache invalidation only from a commit that
\* succeeded (the writes are the table's rows, nothing was raised). A commit
\* that fails ends the sync with the cache as it was, an empty crawl ends it
\* with the cache as it was, and no entry leaves the cache in any other step
\* of the sync than the invalidation.
C34_ClearOnlyAfterCommit ==
    [][/\ \A t \in Tasks :
             /\ (task'[t].pc = "clear" /\ task[t].pc # "clear")
                => /\ task[t].pc = "commit"
                   /\ task[t].all # <<>>
                   /\ db' = Apply(db, task[t].writes)
                   /\ task'[t].raised = NoExc
                   /\ cache' = cache
             /\ (task[t].pc = "commit" /\ task'[t].pc # "clear" /\ task'[t] # task[t])
                => /\ task'[t].pc = "done"
                   /\ task'[t].raised # NoExc
                   /\ cache' = cache
             /\ (CrawlReturns(t) /\ task'[t].all = <<>>)
                => /\ task'[t].pc = "done"
                   /\ cache' = cache
       /\ (\E e \in cache : e \notin cache')
          => \E t \in Tasks : task[t].pc = "clear" /\ task[t].raised = NoExc]_vars

\* The commit of a crawled record failed and both cached entries are still
\* there.
C34_Witness ==
    \E t \in Tasks :
        /\ task[t].op = "sync"
        /\ task[t].pc = "done"
        /\ task[t].all # <<>>
        /\ task[t].raised = "OperationalError"
        /\ db = <<>>
        /\ cache = EarlierEntries

\* The processing of the record at task t's loop position raises in this step.
RecordFails(t) ==
    /\ task[t].pc = "select"
    /\ task[t].idx \in task'[t].skipped

\* C36: when processing a crawled record raises, the record is skipped and
\* nothing else is lost: the sync raises nothing, keeps the writes of the
\* records before it, leaves the count as it was and goes on to the next
\* record or to the commit. The commit of a sync that skipped records stores
\* every record it did not skip, and the count returned is the number of
\* records not skipped.
C36_FailedRecordIsSkipped ==
    /\ [][\A t \in Tasks :
            RecordFails(t)
            => /\ task'[t].raised = NoExc
               /\ task'[t].writes = task[t].writes
               /\ task'[t].synced = task[t].synced
               /\ task'[t].idx = task[t].idx + 1
               /\ task'[t].pc = IF task[t].idx < Len(task[t].all) THEN "select" ELSE "commit"]_vars
    /\ [][\A t \in Tasks :
            (CommitSucceeds(t) /\ task[t].skipped # {})
            => \A k \in Processed(task[t]) :
                  \E j \in 1..Len(db') : db'[j] = LastVersion(task[t], task[t].all[k].id)]_vars
    /\ [](\A t \in Tasks :
            (task[t].op = "sync" /\ task[t].pc = "done" /\ task[t].skipped # {}
                /\ ~task[t].fault)
            => /\ task[t].raised = NoExc
               /\ task[t].ret = "count"
               /\ task[t].count = Cardinality(Processed(task[t])))

\* Of two crawled records the second failed: the sync returned 1 and the
\* first is stored.
C36_Witness ==
    \E t \in Tasks :
        /\ task[t].op = "sync"
        /\ task[t].pc = "done"
        /\ Len(task[t].all) = 2
        /\ task[t].all[1].id # task[t].all[2].id
        /\ task[t].skipped = {2}
        /\ task[t].raised = NoExc
        /\ task[t].count = 1
        /\ db = <<LastVersion(task[t], task[t].all[1].id)>>

-----------------------------------------------------------------------------
(* Listings after and beside a sync *)

\* The sync of task t has returned, having committed at least one record.
Synced(t) ==
    /\ task[t].op = "sync"
    /\ task[t].pc = "done"
    /\ task[t].ret = "count"
    /\ task[t].applied # <<>>

\* The listing entry holds what its listing reads from these rows.
Current(e, rows) ==
    \E a \in SyncedArgs :
        /\ e.key = ListingKeyOf(a)
        /\ e.form = "ok"
        /\ e.view \in ViewsFor("get_characters", a, rows)

\* get_characters of task t returns in this step.
ListReturns(t) ==
    /\ task[t].op = "get_characters"
    /\ task[t].pc # "done"
    /\ task'[t].pc = "done"

\* C33: syncs and listings running one at a time over a working cache. The
\* invalidation that ends a sync of at least one record leaves no entry under
\* a key matching characters:*, whichever listing it was of; after such a
\* sync every listing entry in the cache was read from the committed table,
\* and a listing, whatever its page, page size and order, returns what the
\* committed table holds for it.
C33_SyncClearsEveryListing ==
    /\ [][\A t \in Tasks :
            (ClearReturns(t) /\ task[t].applied # <<>>)
            => \A e \in cache' : ~MatchesListing(e.key)]_vars
    /\ [](\A t \in Tasks :
            (Synced(t) /\ Quiet)
            => \A e \in cache : MatchesListing(e.key) => Current(e, db))
    /\ [][\A t, u \in Tasks :
            (Synced(t) /\ ListReturns(u))
            => task'[u].result \in ViewsFor("get_characters", task[u].args, db)]_vars

\* Every listing was cached for the empty table; a sync stored character 1;
\* the listing of page 1 by name, descending, then missed the cache, returned
\* the character and left the only listing entry.
C33_Witness ==
    /\ Synced("t1")
    /\ db = <<[id |-> 1, name |-> "Rick Sanchez", origin |-> EarthC137]>>
    /\ task["t2"].op = "get_characters"
    /\ task["t2"].pc = "done"
    /\ task["t2"].args = Args(1, 2, "name", "desc", 1)
    /\ ~task["t2"].hit
    /\ task["t2"].result = View(db, 1)
    /\ cache = {Entry(ListingKeyOf(task["t2"].args), "ok", View(db, 1))}

\* C35 as claimed: with listings running beside the sync, once the sync has
\* returned and no listing is in flight, no listing entry holds rows read
\* before the sync's commit: every entry is what its listing reads from the
\* committed table.
C35_NoStaleListingAfterSync ==
    \A t \in Tasks :
        (Synced(t) /\ Quiet)
        => \A e \in cache : MatchesListing(e.key) => Current(e, db)

-----------------------------------------------------------------------------
(* The overall status of /healthcheck *)

\* Of the cache, upstream and data checks, those recorded as failed.
OtherFailures(rec) ==
    {c \in {"cache", "rick_morty_api", "data"} : rec.checks[c] # "healthy"}

Rank(overall) ==
    CASE overall = "healthy" -> 0 [] overall = "degraded" -> 1 [] OTHER -> 2

\* C39: the status /healthcheck answers is unhealthy, with code 503, exactly
\* when the database check failed or two or three of the cache, upstream and
\* data checks failed; degraded, with code 200, exactly when the database
\* check passed and one of the three failed; healthy, with code 200,
\* otherwise. While a request evaluates its checks the status only gets
\* worse.
C39_OverallStatusOfChecks ==
    /\ [](\A t \in Tasks :
            (task[t].route = HealthRoute /\ task[t].pc = "done")
            => LET rec == task[t]
                   n == Cardinality(OtherFailures(rec))
                   dbFailed == rec.checks.database # "healthy"
               IN /\ rec.overall = "unhealthy" <=> (dbFailed \/ n >= 2)
                  /\ rec.overall = "degraded" <=> (~dbFailed /\ n = 1)
                  /\ rec.overall = "healthy" <=> (~dbFailed /\ n = 0)
                  /\ rec.http = IF rec.overall = "unhealthy" THEN 503 ELSE 200)
    /\ [][\A t \in Tasks :
            (task[t].route = HealthRoute /\ task[t].pc \notin {"idle", "done"})
            => /\ task'[t].route = HealthRoute
               /\ Rank(task'[t].overall) >= Rank(task[t].overall)]_vars

\* The database and the data are fine, the cache is disconnected and the
\* upstream fails: two of the three, so 503.
C39_Witness ==
    \E t \in Tasks :
        /\ task[t].route = HealthRoute
        /\ task[t].pc = "done"
        /\ task[t].checks = [database |-> "healthy", cache |-> "disconnected",
                             rick_morty_api |-> "unhealthy", data |-> "healthy"]
        /\ task[t].overall = "unhealthy"
        /\ task[t].http = 503

====
